---- MODULE Spec2Model ----
(***************************************************************************)
(* Model of the unified-diff engine of the assisted-review extension:      *)
(* parseUnifiedDiff -> filterDiffFiles -> formatDiffOutput.                *)
(*                                                                         *)
(* A JavaScript string is a sequence of one-character strings, a text is   *)
(* the sequence of its lines (what split("\n") returns), so prefix tests,  *)
(* regular expressions, slicing and number formatting are computed and     *)
(* not assumed.  `undefined`/`null` is the empty sequence <<>>, an         *)
(* optional value v is <<v>>.                                              *)
(***************************************************************************)
EXTENDS Integers, Sequences, FiniteSets, TLC

VARIABLES
  pc,               \* position in the pipeline
  text,             \* raw diff, diff.split("\n")
  opts,             \* filterDiffFiles options
  ropts,            \* formatDiffOutput options
  files,            \* parseUnifiedDiff(text)
  filtered,         \* filterDiffFiles(files, opts)
  refiltered,       \* filterDiffFiles(filtered, opts)
  fi, hi,           \* loop indices of formatDiffOutput (file, hunk)
  blocks,           \* formatDiffOutput: blocks, each the lines of its text
  diffBlocks,       \* formatDiffOutput: diffBlocks, each the lines of its text
  shownHunks, shownFiles, shownLines, truncated,
  suggestedRanges,  \* insertion-ordered entries <<path, ranges>>
  fileShown, diffStarted, prettyHeaderAdded,
  stopped,          \* history: a budget check has fired its break
  result,           \* <<>> until formatDiffOutput returns, then <<[text, diffText, info]>>
  dpc,              \* /diff: position in the handler
  branch,           \* /diff: ctx.sessionManager.getBranch()
  statusOut,        \* /diff: <<>> when git status failed, else <<stdout.split("\0")>>
  toolCalls,        \* /diff: Map id -> [path, name, timestamp]
  fileMap,          \* /diff: Map canonicalPath -> entry, in insertion order
  statusMap,        \* /diff: Map canonicalPath -> status label, in insertion order
  di,               \* /diff: index of the loop in progress
  changedFiles,     \* /diff: <<>> until the list is built, then <<files>>
  rpc,              \* /revy: position in the handler and in runBranchedReview
  world,            \* /revy: what the session, git, the models and the user answer
  reviewResult,     \* /revy: <<>> until the loader is done, then <<[text, aborted]>>
  reviewEnd,        \* /revy, history: how the isolated review ended
  action,           \* /revy: <<>> or <<the choice made in the result dialog>>
  sent,             \* /revy: the messages passed to pi.sendMessage
  notices,          \* /revy: the texts passed to ctx.ui.notify
  editorText,       \* /revy: <<>> or <<the text passed to ctx.ui.setEditorText>>
  reviewOriginId,   \* assisted review: <<>> for undefined, else <<entry id>>
  reviewActive,
  previousActiveTools, \* <<>> for null, else <<the set of tool names>>
  activePrRef,      \* <<>> for null, else <<ref>>
  comments,         \* the comment store
  nextCommentId,
  session,          \* host: the entries of the session, entry k has id k
  leaf,             \* host: ctx.sessionManager.getLeafId(), 0 for null
  activeTools,      \* host: pi.getActiveTools()
  widget,           \* host: the "assisted-review" widget is set
  treePending,      \* host: a session_tree event is still to be delivered
  starts,           \* /assisted-review: position and locals of each invocation
  ending,           \* /end-assisted-review: position in the handler
  ui,               \* /assisted-review-comments: position and selectedComment
  notice,           \* the text these commands pass to ctx.ui.notify in the step
  toolsAtStart      \* history: <<>> or <<activeTools when the review started>>

engineVars == <<pc, text, opts, ropts, files, filtered, refiltered, fi, hi, blocks,
                diffBlocks, shownHunks, shownFiles, shownLines, truncated,
                suggestedRanges, fileShown, diffStarted, prettyHeaderAdded, stopped,
                result>>

diffCommandVars == <<dpc, branch, statusOut, toolCalls, fileMap, statusMap, di, changedFiles>>

revyCommandVars == <<rpc, world, reviewResult, reviewEnd, action, sent, notices, editorText>>

moduleVars == <<reviewOriginId, reviewActive, previousActiveTools, activePrRef, comments,
                nextCommentId>>

hostVars == <<session, leaf, activeTools, widget, treePending>>

reviewVars == <<moduleVars, hostVars, starts, ending, ui, notice, toolsAtStart>>

commandVars == <<diffCommandVars, revyCommandVars, reviewVars>>

vars == <<engineVars, commandVars>>

\* no command is running
DiffCommandIdle ==
  /\ dpc = "idle"
  /\ branch = <<>>
  /\ statusOut = <<>>
  /\ toolCalls = <<>>
  /\ fileMap = <<>>
  /\ statusMap = <<>>
  /\ di = 1
  /\ changedFiles = <<>>

RevyCommandIdle ==
  /\ rpc = "idle"
  /\ world = <<>>
  /\ reviewResult = <<>>
  /\ reviewEnd = "none"
  /\ action = <<>>
  /\ sent = <<>>
  /\ notices = <<>>
  /\ editorText = <<>>

\* nothing of the assisted review has run
ReviewIdle ==
  /\ reviewOriginId = <<>>
  /\ reviewActive = FALSE
  /\ previousActiveTools = <<>>
  /\ activePrRef = <<>>
  /\ comments = <<>>
  /\ nextCommentId = 1
  /\ session = <<>>
  /\ leaf = 0
  /\ activeTools = {}
  /\ widget = FALSE
  /\ treePending = FALSE
  /\ starts = <<>>
  /\ ending = [pc |-> "idle", target |-> 0]
  /\ ui = <<>>
  /\ notice = <<>>
  /\ toolsAtStart = <<>>

CommandsIdle == DiffCommandIdle /\ RevyCommandIdle /\ ReviewIdle

-----------------------------------------------------------------------------
(* Strings *)

StartsWith(s, p) == Len(s) >= Len(p) /\ SubSeq(s, 1, Len(p)) = p

Slice1(s) == IF s = <<>> THEN <<>> ELSE Tail(s)

Min(S) == CHOOSE x \in S : \A y \in S : x <= y

Max(a, b) == IF a >= b THEN a ELSE b

MinOf(a, b) == IF a <= b THEN a ELSE b

DigitChars == <<"0", "1", "2", "3", "4", "5", "6", "7", "8", "9">>

IsDigit(c) == \E d \in 1..10 : DigitChars[d] = c

DigitVal(c) == (CHOOSE d \in 1..10 : DigitChars[d] = c) - 1

RECURSIVE Number(_)
Number(ds) ==
  IF ds = <<>> THEN 0
  ELSE 10 * Number(SubSeq(ds, 1, Len(ds) - 1)) + DigitVal(ds[Len(ds)])

RECURSIVE ToStr(_)
ToStr(n) ==
  IF n < 10 THEN <<DigitChars[n + 1]>>
  ELSE ToStr(n \div 10) \o <<DigitChars[(n % 10) + 1]>>

RECURSIVE Concat(_)
Concat(ss) == IF ss = <<>> THEN <<>> ELSE Head(ss) \o Concat(Tail(ss))

\* xs.join("\n") as the lines of the joined text: joining no line gives "",
\* whose split is the single empty line.
JoinLines(ls) == IF ls = <<>> THEN << <<>> >> ELSE ls

\* text.trim().length === 0 for a text given by its lines
IsBlank(ls) == \A i \in 1..Len(ls) : \A k \in 1..Len(ls[i]) : ls[i][k] = " "

-----------------------------------------------------------------------------
(* Regular expressions.  The modelled patterns are sequences of atoms: an  *)
(* ordinary character, "." (any character) or a backslash escape; any      *)
(* other use of a metacharacter is, in the inputs drawn below, one that    *)
(* `new RegExp` rejects (an unbalanced bracket, a dangling quantifier or   *)
(* backslash).                                                             *)

MetaChars == {".", "*", "+", "?", "^", "$", "{", "}", "(", ")", "|", "[", "]", "\\"}

RECURSIVE RegexCompiles(_)
RegexCompiles(p) ==
  IF p = <<>> THEN TRUE
  ELSE IF p[1] = "\\" THEN Len(p) >= 2 /\ RegexCompiles(SubSeq(p, 3, Len(p)))
  ELSE IF p[1] \in MetaChars \ {"."} THEN FALSE
  ELSE RegexCompiles(Tail(p))

RECURSIVE Atoms(_)
Atoms(p) ==
  IF p = <<>> THEN <<>>
  ELSE IF p[1] = "\\" THEN <<[any |-> FALSE, ch |-> p[2]]>> \o Atoms(SubSeq(p, 3, Len(p)))
  ELSE IF p[1] = "." THEN <<[any |-> TRUE, ch |-> "."]>> \o Atoms(Tail(p))
  ELSE <<[any |-> FALSE, ch |-> p[1]]>> \o Atoms(Tail(p))

\* variant: the dot is left unescaped
RECURSIVE EscapeRegex_DotUnescaped(_)
EscapeRegex_DotUnescaped(p) ==
  IF p = <<>> THEN <<>>
  ELSE (IF p[1] \in MetaChars \ {"."} THEN <<"\\", p[1]>> ELSE <<p[1]>>)
         \o EscapeRegex_DotUnescaped(Tail(p))

\* pattern.replace(/[.*+?^${}()|[\]\\]/g, "\\$&")
RECURSIVE EscapeRegex(_)
EscapeRegex(p) ==
  IF p = <<>> THEN <<>>
  ELSE (IF p[1] \in MetaChars THEN <<"\\", p[1]>> ELSE <<p[1]>>) \o EscapeRegex(Tail(p))

\* null is <<>>; a compiled expression is its non-empty sequence of atoms
compileGrep(pattern) ==
  IF pattern = <<>> THEN <<>>
  ELSE IF RegexCompiles(pattern) THEN Atoms(pattern)
  ELSE Atoms(EscapeRegex(pattern))

\* grep.test(line): an unanchored search
RegexTest(atoms, line) ==
  \E i \in 1..(Len(line) - Len(atoms) + 1) :
    \A k \in 1..Len(atoms) : atoms[k].any \/ line[i + k - 1] = atoms[k].ch

-----------------------------------------------------------------------------
(* parseUnifiedDiff *)

DiffGitPrefix == <<"d","i","f","f"," ","-","-","g","i","t"," ">>

HunkPrefix == <<"@", "@", " ">>

AtAt == <<"@", "@">>

At(s, i) == IF i >= 1 /\ i <= Len(s) THEN s[i] ELSE ""

Sub(s, i, j) == IF i >= 1 /\ j <= Len(s) THEN SubSeq(s, i, j) ELSE <<"">>

\* index after the longest run of digits of s that starts at i
RECURSIVE DigitsEnd(_, _)
DigitsEnd(s, i) == IF IsDigit(At(s, i)) THEN DigitsEnd(s, i + 1) ELSE i

\* index after an optional ",<digits>" at i
SkipCount(s, i) ==
  IF At(s, i) = "," /\ DigitsEnd(s, i + 1) > i + 1 THEN DigitsEnd(s, i + 1) ELSE i

\* /@@ -(\d+)(?:,\d+)? \+(\d+)(?:,\d+)? @@/ tried at position i:
\* <<>> or <<[oldStart, newStart]>>
HunkHeaderAt(s, i) ==
  LET o1 == i + 4
      o2 == DigitsEnd(s, o1)
      o3 == SkipCount(s, o2)
      n1 == o3 + 2
      n2 == DigitsEnd(s, n1)
      n3 == SkipCount(s, n2)
  IN  IF /\ Sub(s, i, i + 3) = <<"@", "@", " ", "-">>
         /\ o2 > o1
         /\ Sub(s, o3, o3 + 1) = <<" ", "+">>
         /\ n2 > n1
         /\ Sub(s, n3, n3 + 2) = <<" ", "@", "@">>
      THEN <<[oldStart |-> Number(SubSeq(s, o1, o2 - 1)),
              newStart |-> Number(SubSeq(s, n1, n2 - 1))]>>
      ELSE <<>>

\* .exec(line): the leftmost match
HunkHeaderMatch(line) ==
  LET S == {i \in 1..Len(line) : HunkHeaderAt(line, i) # <<>>}
  IN  IF S = {} THEN <<>> ELSE HunkHeaderAt(line, Min(S))

DiffGitA == DiffGitPrefix \o <<"a", "/">>

\* /^diff --git a\/(.+?) b\/(.+)$/ : group 2, or <<>> when there is no match.
\* The lazy group 1 ends at the first " b/" that leaves both groups non-empty.
DiffGitMatch(line) ==
  LET S == {i \in (Len(DiffGitA) + 2)..(Len(line) - 3) :
              SubSeq(line, i, i + 2) = <<" ", "b", "/">>}
  IN  IF StartsWith(line, DiffGitA) /\ S # {}
      THEN <<SubSeq(line, Min(S) + 3, Len(line))>>
      ELSE <<>>

\* variant: the fallback keeps the whole line
StripDiffGit_RawLine(line) == line

\* line.replace("diff --git ", "") for a line that starts with it
StripDiffGit(line) == SubSeq(line, Len(DiffGitPrefix) + 1, Len(line))

NewFile(line) ==
  LET match == DiffGitMatch(line)
  IN  [path |-> IF match # <<>> THEN match[1] ELSE StripDiffGit(line),
       headerLines |-> <<line>>,
       hunks |-> <<>>]

\* variant: the header is not kept among the lines of the hunk
NewHunk_HeaderOutside(line) ==
  LET match == HunkHeaderMatch(line)
  IN  [header |-> line,
       lines |-> <<>>,
       oldStart |-> IF match # <<>> THEN match[1].oldStart ELSE 0,
       newStart |-> IF match # <<>> THEN match[1].newStart ELSE 0]

NewHunk(line) ==
  LET match == HunkHeaderMatch(line)
  IN  [header |-> line,
       lines |-> <<line>>,
       oldStart |-> IF match # <<>> THEN match[1].oldStart ELSE 0,
       newStart |-> IF match # <<>> THEN match[1].newStart ELSE 0]

\* pushCurrent
pushCurrent(st) ==
  [files |-> st.files \o st.currentFile, currentFile |-> <<>>, hunkOpen |-> FALSE]

\* One iteration of the loop over the lines.  currentHunk aliases the last
\* hunk of currentFile, so it is kept as the flag hunkOpen.
ParseLine(st, line) ==
  IF StartsWith(line, DiffGitPrefix)
  THEN [pushCurrent(st) EXCEPT !.currentFile = <<NewFile(line)>>]
  ELSE IF st.currentFile = <<>> THEN st
  ELSE LET f == st.currentFile[1]
       IN  IF StartsWith(line, HunkPrefix)
           THEN [st EXCEPT !.currentFile = <<[f EXCEPT !.hunks = Append(@, NewHunk(line))]>>,
                           !.hunkOpen = TRUE]
           ELSE IF st.hunkOpen
           THEN [st EXCEPT !.currentFile =
                   <<[f EXCEPT !.hunks[Len(f.hunks)].lines = Append(@, line)]>>]
           ELSE [st EXCEPT !.currentFile = <<[f EXCEPT !.headerLines = Append(@, line)]>>]

RECURSIVE ParseLoop(_, _, _)
ParseLoop(st, lines, i) ==
  IF i > Len(lines) THEN st ELSE ParseLoop(ParseLine(st, lines[i]), lines, i + 1)

parseUnifiedDiff(lines) ==
  pushCurrent(ParseLoop([files |-> <<>>, currentFile |-> <<>>, hunkOpen |-> FALSE],
                        lines, 1)).files

-----------------------------------------------------------------------------
(* filterDiffFiles *)

Plus3 == <<"+", "+", "+">>

Minus3 == <<"-", "-", "-">>

IsAdded(line) == StartsWith(line, <<"+">>) /\ ~StartsWith(line, Plus3)

IsRemoved(line) == StartsWith(line, <<"-">>) /\ ~StartsWith(line, Minus3)

IsContext(line) == StartsWith(line, <<" ">>)

\* mutant of PathMatches: a plain string prefix test
PathMatches_PlainPrefix(filePath, path) == StartsWith(filePath, path)

\* file.path === path || file.path.startsWith(`${path}/`)
PathMatches(filePath, path) == filePath = path \/ StartsWith(filePath, path \o <<"/">>)

PathKept(file, paths) == \E k \in 1..Len(paths) : PathMatches(file.path, paths[k])

\* mutant of InRange: the end of the range excluded
InRange_EndExcluded(newLine, lineRange) ==
  newLine >= lineRange.start /\ newLine < lineRange.end

\* newLine >= lineRange.start && newLine <= lineRange.end
InRange(newLine, lineRange) == newLine >= lineRange.start /\ newLine <= lineRange.end

\* One iteration of the loop of sliceByRange.
SliceLine(st, line, lineRange) ==
  IF StartsWith(line, AtAt) THEN [st EXCEPT !.collected = Append(@, line)]
  ELSE IF IsAdded(line)
  THEN [st EXCEPT !.collected = IF InRange(st.newLine, lineRange) THEN Append(@, line) ELSE @,
                  !.hasAny = @ \/ InRange(st.newLine, lineRange),
                  !.newLine = @ + 1]
  ELSE IF IsRemoved(line) THEN [st EXCEPT !.oldLine = @ + 1]
  ELSE IF IsContext(line)
  THEN [st EXCEPT !.collected = IF InRange(st.newLine, lineRange) THEN Append(@, line) ELSE @,
                  !.hasAny = @ \/ InRange(st.newLine, lineRange),
                  !.oldLine = @ + 1,
                  !.newLine = @ + 1]
  ELSE st

RECURSIVE SliceLoop(_, _, _, _)
SliceLoop(st, lines, i, lineRange) ==
  IF i > Len(lines) THEN st
  ELSE SliceLoop(SliceLine(st, lines[i], lineRange), lines, i + 1, lineRange)

\* <<>> for null
sliceByRange(hunk, lineRange) ==
  IF lineRange = <<>> THEN <<hunk>>
  ELSE LET st == SliceLoop([oldLine |-> hunk.oldStart, newLine |-> hunk.newStart,
                            collected |-> <<>>, hasAny |-> FALSE],
                           hunk.lines, 1, lineRange[1])
       IN  IF ~st.hasAny THEN <<>> ELSE <<[hunk EXCEPT !.lines = st.collected]>>

RECURSIVE KeepIndices(_, _, _)
KeepIndices(lines, keep, i) ==
  IF i > Len(lines) THEN <<>>
  ELSE (IF i \in keep THEN <<lines[i]>> ELSE <<>>) \o KeepIndices(lines, keep, i + 1)

\* mutant of GrepWindow: context after the match only
GrepWindow_AfterOnly(idx, grepContext, len) ==
  {i \in 1..len : i >= idx /\ i <= MinOf(len, idx + grepContext)}

\* The indices i of the inner loop for the match at idx; indices are 1-based
\* here, so Math.max(0, ..) and hunk.lines.length - 1 are 1 and Len.
GrepWindow(idx, grepContext, len) ==
  {i \in 1..len : i >= Max(1, idx - grepContext) /\ i <= MinOf(len, idx + grepContext)}

\* <<>> for null
applyGrep(hunk, grep, grepContext) ==
  IF grep = <<>> THEN <<hunk>>
  ELSE LET matchLines == {i \in 1..Len(hunk.lines) : RegexTest(grep, hunk.lines[i])}
           keep == UNION {GrepWindow(idx, grepContext, Len(hunk.lines)) : idx \in matchLines}
       IN  IF matchLines = {} THEN <<>>
           ELSE IF grepContext <= 0 THEN <<hunk>>
           ELSE <<[hunk EXCEPT !.lines = KeepIndices(hunk.lines, keep \cup {1}, 1)]>>

\* mutant of FilterHunk: grep before the range slice
FilterHunk_GrepFirst(hunk, grep, grepContext, lineRange) ==
  LET grepped == applyGrep(hunk, grep, grepContext)
  IN  IF grepped = <<>> THEN <<>> ELSE sliceByRange(grepped[1], lineRange)

\* .map((hunk) => sliceByRange(hunk, lineRange)).filter(Boolean)
\* .map((hunk) => applyGrep(hunk, grep, grepContext)).filter(Boolean)
FilterHunk(hunk, grep, grepContext, lineRange) ==
  LET ranged == sliceByRange(hunk, lineRange)
  IN  IF ranged = <<>> THEN <<>> ELSE applyGrep(ranged[1], grep, grepContext)

RECURSIVE FilterHunks(_, _, _, _)
FilterHunks(hunks, grep, grepContext, lineRange) ==
  IF hunks = <<>> THEN <<>>
  ELSE FilterHunk(Head(hunks), grep, grepContext, lineRange)
         \o FilterHunks(Tail(hunks), grep, grepContext, lineRange)

\* .filter((file) => file.hunks.length > 0 || file.headerLines.length > 0)
KeepFile(file) == Len(file.hunks) > 0 \/ Len(file.headerLines) > 0

\* mutant of HasHunks: the last filter keeps every file
HasHunks_Always(file) == TRUE

\* if (!grep) return filteredFiles; return filteredFiles.filter((file) => file.hunks.length > 0)
HasHunks(file) == Len(file.hunks) > 0

RECURSIVE MapFiles(_, _, _, _)
MapFiles(fs, grep, grepContext, lineRange) ==
  IF fs = <<>> THEN <<>>
  ELSE <<[Head(fs) EXCEPT !.hunks = FilterHunks(@, grep, grepContext, lineRange)]>>
         \o MapFiles(Tail(fs), grep, grepContext, lineRange)

filterDiffFiles(fs, options) ==
  LET Kept(file) == PathKept(file, options.paths)
      byPath == IF Len(options.paths) > 0 THEN SelectSeq(fs, Kept) ELSE fs
      grep == compileGrep(options.grep)
      filteredFiles == SelectSeq(MapFiles(byPath, grep, options.grepContext, options.lineRange),
                                 KeepFile)
  IN  IF grep = <<>> THEN filteredFiles ELSE SelectSeq(filteredFiles, HasHunks)

-----------------------------------------------------------------------------
(* Links *)

\* createHash("sha256").update(path).digest("hex"): the digest is left
\* uninterpreted, an injective symbol of the path.
diffAnchor(path) == <<"sha256(">> \o path \o <<")">>

\* One iteration of the loop of hunkLinkTarget; firstAdded === null and
\* firstRemoved === null are the flags addedSeen and removedSeen.
TargetLine(st, line) ==
  IF StartsWith(line, AtAt) THEN st
  ELSE IF IsAdded(line)
  THEN [st EXCEPT !.firstAdded = IF st.addedSeen THEN @ ELSE st.newLine,
                  !.addedSeen = TRUE,
                  !.newLine = @ + 1]
  ELSE IF IsRemoved(line)
  THEN [st EXCEPT !.firstRemoved = IF st.removedSeen THEN @ ELSE st.oldLine,
                  !.removedSeen = TRUE,
                  !.oldLine = @ + 1]
  ELSE IF IsContext(line) THEN [st EXCEPT !.oldLine = @ + 1, !.newLine = @ + 1]
  ELSE st

RECURSIVE TargetLoop(_, _, _)
TargetLoop(st, lines, i) ==
  IF i > Len(lines) THEN st ELSE TargetLoop(TargetLine(st, lines[i]), lines, i + 1)

\* variant: a removed line takes precedence over an added one
hunkLinkTarget_RemovedFirst(hunk) ==
  LET st == TargetLoop([oldLine |-> hunk.oldStart, newLine |-> hunk.newStart,
                        firstAdded |-> 0, addedSeen |-> FALSE,
                        firstRemoved |-> 0, removedSeen |-> FALSE],
                       hunk.lines, 1)
  IN  IF st.removedSeen THEN [line |-> st.firstRemoved, side |-> "L"]
      ELSE IF st.addedSeen THEN [line |-> st.firstAdded, side |-> "R"]
      ELSE [line |-> hunk.newStart, side |-> "R"]

hunkLinkTarget(hunk) ==
  LET st == TargetLoop([oldLine |-> hunk.oldStart, newLine |-> hunk.newStart,
                        firstAdded |-> 0, addedSeen |-> FALSE,
                        firstRemoved |-> 0, removedSeen |-> FALSE],
                       hunk.lines, 1)
  IN  IF st.addedSeen THEN [line |-> st.firstAdded, side |-> "R"]
      ELSE IF st.removedSeen THEN [line |-> st.firstRemoved, side |-> "L"]
      ELSE [line |-> hunk.newStart, side |-> "R"]

ChangesHash == <<"/","c","h","a","n","g","e","s","#">>

DiffDash == <<"d", "i", "f", "f", "-">>

\* line = 0 also stands for an omitted line argument: both are falsy
buildGithubLink(prUrl, path, line, side) ==
  LET base == IF prUrl # <<>> /\ prUrl[Len(prUrl)] = "/"
              THEN SubSeq(prUrl, 1, Len(prUrl) - 1) ELSE prUrl
      anchor == DiffDash \o diffAnchor(path)
  IN  IF line > 0 THEN base \o ChangesHash \o anchor \o <<side>> \o ToStr(line)
      ELSE base \o ChangesHash \o anchor

-----------------------------------------------------------------------------
(* Suggested ranges *)

DevNull == <<"-","-","-"," ","/","d","e","v","/","n","u","l","l">>

NewFileMode == <<"n","e","w"," ","f","i","l","e"," ","m","o","d","e">>

isNewFileDiff(file) ==
  \E i \in 1..Len(file.headerLines) :
    StartsWith(file.headerLines[i], DevNull) \/ StartsWith(file.headerLines[i], NewFileMode)

\* One iteration of the inner loop of computeFileLineRanges.
RangeLine(st, line) ==
  IF StartsWith(line, AtAt) THEN st
  ELSE IF IsAdded(line) \/ IsContext(line)
  THEN [st EXCEPT !.minLine = IF st.seen THEN @ ELSE st.newLine,
                  !.maxLine = st.newLine,
                  !.seen = TRUE,
                  !.newLine = @ + 1]
  ELSE st

RECURSIVE RangeLines(_, _, _)
RangeLines(st, lines, i) ==
  IF i > Len(lines) THEN st ELSE RangeLines(RangeLine(st, lines[i]), lines, i + 1)

RECURSIVE RangeHunks(_, _, _)
RangeHunks(st, hunks, h) ==
  IF h > Len(hunks) THEN st
  ELSE RangeHunks(RangeLines([st EXCEPT !.newLine = hunks[h].newStart], hunks[h].lines, 1),
                  hunks, h + 1)

RECURSIVE RangeChunks(_, _, _)
RangeChunks(start, maxLine, chunkSize) ==
  IF start > maxLine THEN <<>>
  ELSE <<ToStr(start) \o <<"-">> \o ToStr(MinOf(maxLine, start + chunkSize - 1))>>
         \o RangeChunks(start + chunkSize, maxLine, chunkSize)

computeFileLineRanges(file, chunkSize) ==
  LET st == RangeHunks([minLine |-> 0, maxLine |-> 0, seen |-> FALSE, newLine |-> 0],
                       file.hunks, 1)
  IN  IF ~st.seen THEN <<>> ELSE RangeChunks(st.minLine, st.maxLine, chunkSize)

\* suggestedRanges[path] = ranges on an insertion-ordered object
RECURSIVE SetRanges(_, _, _)
SetRanges(entries, path, ranges) ==
  IF entries = <<>> THEN <<[path |-> path, ranges |-> ranges]>>
  ELSE IF Head(entries).path = path
  THEN <<[path |-> path, ranges |-> ranges]>> \o Tail(entries)
  ELSE <<Head(entries)>> \o SetRanges(Tail(entries), path, ranges)

-----------------------------------------------------------------------------
(* formatDiffOutput *)

NoDiffOutput ==
  <<"N","o"," ","d","i","f","f"," ","o","u","t","p","u","t"," ","(","f","i","l","t","e","r","s"," ",
    "r","e","m","o","v","e","d"," ","a","l","l"," ","h","u","n","k","s",")",".">>

TruncatedLine == <<".",".","."," ","(","t","r","u","n","c","a","t","e","d",")">>

NoteRule == <<"-", "-", "-">>

NoteLine ==
  <<"D","i","f","f"," ","o","u","t","p","u","t"," ","t","r","u","n","c","a","t","e","d","."," ","T",
    "h","e"," ","d","i","f","f"," ","h","a","s"," ","a","l","r","e","a","d","y"," ","b","e","e","n",
    " ","s","h","o","w","n"," ","t","o"," ","t","h","e"," ","u","s","e","r",";"," ","d","o"," ","N",
    "O","T"," ","s","h","o","w"," ","a","n","o","t","h","e","r"," ","d","i","f","f"," ","u","n","l",
    "e","s","s"," ","t","h","e"," ","u","s","e","r"," ","e","x","p","l","i","c","i","t","l","y"," ",
    "a","s","k","s",".">>

SuggestedLine ==
  <<"S","u","g","g","e","s","t","e","d"," ","l","i","n","e","R","a","n","g","e"," ","v","a","l","u",
    "e","s",":">>

GitHubLabel == <<"G","i","t","H","u","b",":"," ">>

\* mutant of BudgetReached: the hunk budget is not checked
BudgetReached_LinesOnly(sHunks, sLines, options) == sLines >= options.maxLines

\* mutant of BudgetReached: the line budget is not checked
BudgetReached_HunksOnly(sHunks, sLines, options) == sHunks >= options.maxHunks

\* shownHunks >= options.maxHunks || shownLines >= options.maxLines
BudgetReached(sHunks, sLines, options) ==
  sHunks >= options.maxHunks \/ sLines >= options.maxLines

\* text.split("\n").length of a block given by its lines
BlockLineCount(block) == Len(block)

\* addDiffBlock
addDiffBlock(dBlocks, textLines) ==
  IF IsBlank(textLines) THEN dBlocks ELSE Append(dBlocks, textLines)

\* `== ${file.path}\n${[...file.headerLines].join("\n")}`
FileBlock(file) == <<<<"=", "=", " ">> \o file.path>> \o JoinLines(file.headerLines)

PrettyHeader(file) == <<<<" ", " ">> \o file.path>>

\* fullLines.slice(0, Math.max(0, remainingLines - 1)) when the hunk does not fit
LinesToRender(fullLines, remainingLines) ==
  IF Len(fullLines) > remainingLines
  THEN SubSeq(fullLines, 1, MinOf(Len(fullLines), Max(0, remainingLines - 1)))
  ELSE fullLines

HunkTitle(file, hunk) ==
  <<"=", "=", " ">> \o file.path \o <<" ","(","h","u","n","k"," ","+">>
    \o ToStr(hunk.newStart) \o <<")">>

\* mutant of HunkBlock: the hunk is never cut
HunkBlock_NeverCut(file, hunk, remainingLines) ==
  <<HunkTitle(file, hunk)>> \o JoinLines(file.headerLines \o hunk.lines)

\* the block of one hunk
HunkBlock(file, hunk, remainingLines) ==
  LET fullLines == file.headerLines \o hunk.lines
  IN  <<HunkTitle(file, hunk)>> \o JoinLines(LinesToRender(fullLines, remainingLines))
        \o (IF Len(fullLines) > remainingLines THEN <<TruncatedLine>> ELSE <<>>)

\* mutant of PrettyLine: a context line does not advance the new-side counter
PrettyLine_ContextStalls(st, line) ==
  IF StartsWith(line, AtAt) THEN st
  ELSE IF IsAdded(line)
  THEN [st EXCEPT !.prettyLines = Append(@, <<"+">> \o ToStr(st.newLine) \o <<" ">> \o Slice1(line)),
                  !.newLine = @ + 1]
  ELSE IF IsRemoved(line)
  THEN [st EXCEPT !.prettyLines = Append(@, <<"-">> \o ToStr(st.oldLine) \o <<" ">> \o Slice1(line)),
                  !.oldLine = @ + 1]
  ELSE IF IsContext(line)
  THEN [st EXCEPT !.prettyLines = Append(@, <<" ">> \o ToStr(st.newLine) \o <<" ">> \o Slice1(line)),
                  !.oldLine = @ + 1]
  ELSE [st EXCEPT !.prettyLines = Append(@, <<" ">> \o ToStr(st.newLine) \o <<" ">> \o line)]

\* One iteration of the loop that builds prettyLines.
PrettyLine(st, line) ==
  IF StartsWith(line, AtAt) THEN st
  ELSE IF IsAdded(line)
  THEN [st EXCEPT !.prettyLines = Append(@, <<"+">> \o ToStr(st.newLine) \o <<" ">> \o Slice1(line)),
                  !.newLine = @ + 1]
  ELSE IF IsRemoved(line)
  THEN [st EXCEPT !.prettyLines = Append(@, <<"-">> \o ToStr(st.oldLine) \o <<" ">> \o Slice1(line)),
                  !.oldLine = @ + 1]
  ELSE IF IsContext(line)
  THEN [st EXCEPT !.prettyLines = Append(@, <<" ">> \o ToStr(st.newLine) \o <<" ">> \o Slice1(line)),
                  !.oldLine = @ + 1,
                  !.newLine = @ + 1]
  ELSE [st EXCEPT !.prettyLines = Append(@, <<" ">> \o ToStr(st.newLine) \o <<" ">> \o line)]

RECURSIVE PrettyLoop(_, _, _)
PrettyLoop(st, lines, i) ==
  IF i > Len(lines) THEN st ELSE PrettyLoop(PrettyLine(st, lines[i]), lines, i + 1)

PrettyLines(hunk) ==
  PrettyLoop([oldLine |-> hunk.oldStart, newLine |-> hunk.newStart, prettyLines |-> <<>>],
             hunk.lines, 1).prettyLines

HunkLinkBlock(prUrl, file, hunk) ==
  LET target == hunkLinkTarget(hunk)
  IN  <<GitHubLabel \o buildGithubLink(prUrl, file.path, target.line, target.side)>>

FileLinkBlock(prUrl, file) == <<GitHubLabel \o buildGithubLink(prUrl, file.path, 0, "R")>>

RECURSIVE JoinWith(_, _)
JoinWith(ss, sep) ==
  IF ss = <<>> THEN <<>>
  ELSE IF Len(ss) = 1 THEN ss[1]
  ELSE ss[1] \o sep \o JoinWith(Tail(ss), sep)

\* `${path}: ${ranges.join(", ")}` for the entries with ranges
RECURSIVE RangeHints(_)
RangeHints(entries) ==
  IF entries = <<>> THEN <<>>
  ELSE (IF Len(Head(entries).ranges) > 0
        THEN <<Head(entries).path \o <<":", " ">> \o JoinWith(Head(entries).ranges, <<",", " ">>)>>
        ELSE <<>>) \o RangeHints(Tail(entries))

\* the note pushed when truncated
Note(entries) ==
  <<NoteRule, NoteLine>>
    \o (IF RangeHints(entries) # <<>> THEN <<SuggestedLine>> \o RangeHints(entries) ELSE <<>>)

\* blocks.join("\n\n") as lines
TextOf(bs) == JoinLines(JoinWith(bs, << <<>> >>))

\* diffBlocks.join("\n") as lines
DiffTextOf(dBlocks) == JoinLines(Concat(dBlocks))

EmptyResult ==
  [text |-> <<NoDiffOutput>>, diffText |-> << <<>> >>,
   info |-> [shownFiles |-> 0, shownHunks |-> 0, shownLines |-> 0, truncated |-> FALSE,
             suggestedRanges |-> <<>>]]

-----------------------------------------------------------------------------
(* The pipeline of the assisted_review_diff tool, formatDiffOutput step by *)
(* step: one action per loop iteration.                                    *)

inputVars == <<text, opts, ropts>>

loopVars == <<fi, hi, fileShown, diffStarted, prettyHeaderAdded>>

outVars == <<blocks, diffBlocks, shownHunks, shownFiles, shownLines, truncated,
             suggestedRanges, stopped>>

Parse ==
  /\ pc = "parse"
  /\ files' = parseUnifiedDiff(text)
  /\ pc' = "filter"
  /\ UNCHANGED <<commandVars, inputVars, filtered, refiltered, loopVars, outVars, result>>

Filter ==
  /\ pc = "filter"
  /\ filtered' = filterDiffFiles(files, opts)
  /\ pc' = "refilter"
  /\ UNCHANGED <<commandVars, inputVars, files, refiltered, loopVars, outVars, result>>

\* a caller filtering a result again with the same options
Refilter ==
  /\ pc = "refilter"
  /\ refiltered' = filterDiffFiles(filtered, opts)
  /\ pc' = "format"
  /\ UNCHANGED <<commandVars, inputVars, files, filtered, loopVars, outVars, result>>

\* entry of formatDiffOutput(filtered, ropts)
FormatStart ==
  /\ pc = "format"
  /\ IF Len(filtered) = 0
     THEN /\ result' = <<EmptyResult>>
          /\ pc' = "done"
     ELSE /\ result' = result
          /\ pc' = "file"
  /\ UNCHANGED <<commandVars, inputVars, files, filtered, refiltered, loopVars, outVars>>

\* head of `for (const file of files)` and the header-only branch
RenderFile ==
  /\ pc = "file"
  /\ IF fi > Len(filtered)
     THEN /\ pc' = "return"
          /\ UNCHANGED <<loopVars, outVars>>
     ELSE IF BudgetReached(shownHunks, shownLines, ropts)
     THEN /\ truncated' = TRUE
          /\ stopped' = TRUE
          /\ pc' = "return"
          /\ UNCHANGED <<loopVars, blocks, diffBlocks, shownHunks, shownFiles, shownLines,
                         suggestedRanges>>
     ELSE LET file == filtered[fi]
          IN  IF Len(file.hunks) = 0
              THEN LET link == IF ropts.prUrl # <<>>
                               THEN <<FileLinkBlock(ropts.prUrl, file)>> ELSE <<>>
                   IN  /\ blocks' = Append(blocks, FileBlock(file)) \o link
                       /\ shownLines' = shownLines + BlockLineCount(FileBlock(file))
                                          + (IF link # <<>> THEN BlockLineCount(link[1]) ELSE 0)
                       /\ diffBlocks' = addDiffBlock(diffBlocks, PrettyHeader(file))
                       /\ shownFiles' = shownFiles + 1
                       /\ fi' = fi + 1
                       /\ fileShown' = TRUE
                       /\ diffStarted' = FALSE
                       /\ prettyHeaderAdded' = FALSE
                       /\ pc' = "file"
                       /\ UNCHANGED <<hi, shownHunks, truncated, suggestedRanges, stopped>>
              ELSE /\ fileShown' = FALSE
                   /\ diffStarted' = FALSE
                   /\ prettyHeaderAdded' = FALSE
                   /\ hi' = 1
                   /\ pc' = "hunk"
                   /\ UNCHANGED <<fi, outVars>>
  /\ UNCHANGED <<commandVars, inputVars, files, filtered, refiltered, result>>

\* one iteration of `for (const hunk of file.hunks)`
RenderHunk ==
  /\ pc = "hunk"
  /\ LET file == filtered[fi]
     IN  IF hi > Len(file.hunks)
         THEN /\ pc' = "fileEnd"
              /\ UNCHANGED <<loopVars, outVars>>
         ELSE IF BudgetReached(shownHunks, shownLines, ropts)
         THEN /\ truncated' = TRUE
              /\ stopped' = TRUE
              /\ pc' = "fileEnd"
              /\ UNCHANGED <<loopVars, blocks, diffBlocks, shownHunks, shownFiles, shownLines,
                             suggestedRanges>>
         ELSE LET hunk == file.hunks[hi]
                  remainingLines == ropts.maxLines - shownLines
                  block == HunkBlock(file, hunk, remainingLines)
                  link == IF ropts.prUrl # <<>>
                          THEN <<HunkLinkBlock(ropts.prUrl, file, hunk)>> ELSE <<>>
                  withHeader == IF ~prettyHeaderAdded
                                THEN addDiffBlock(diffBlocks, PrettyHeader(file))
                                ELSE diffBlocks
                  withPretty == addDiffBlock(withHeader, JoinLines(PrettyLines(hunk)))
              IN  /\ truncated' = (truncated \/ Len(file.headerLines \o hunk.lines) > remainingLines)
                  /\ blocks' = Append(blocks, block) \o link
                  /\ shownLines' = shownLines + BlockLineCount(block)
                                     + (IF link # <<>> THEN BlockLineCount(link[1]) ELSE 0)
                  /\ fileShown' = TRUE
                  /\ shownHunks' = shownHunks + 1
                  /\ prettyHeaderAdded' = TRUE
                  /\ diffBlocks' = IF ~diffStarted THEN withPretty
                                   ELSE addDiffBlock(withPretty, JoinLines(<<>>))
                  /\ diffStarted' = TRUE
                  /\ hi' = hi + 1
                  /\ pc' = "hunk"
                  /\ UNCHANGED <<fi, shownFiles, suggestedRanges, stopped>>
  /\ UNCHANGED <<commandVars, inputVars, files, filtered, refiltered, result>>

\* the statements after the hunk loop
RenderFileEnd ==
  /\ pc = "fileEnd"
  /\ LET file == filtered[fi]
     IN  /\ suggestedRanges' =
               IF truncated /\ isNewFileDiff(file)
               THEN SetRanges(suggestedRanges, file.path,
                              computeFileLineRanges(file, ropts.maxLines))
               ELSE suggestedRanges
         /\ shownFiles' = IF fileShown THEN shownFiles + 1 ELSE shownFiles
  /\ fi' = fi + 1
  /\ pc' = "file"
  /\ UNCHANGED <<commandVars, inputVars, files, filtered, refiltered, hi, fileShown, diffStarted,
                 prettyHeaderAdded, blocks, diffBlocks, shownHunks, shownLines, truncated,
                 stopped, result>>

\* the note and the return statement
RenderReturn ==
  /\ pc = "return"
  /\ result' = <<[text |-> TextOf(IF truncated THEN Append(blocks, Note(suggestedRanges))
                                   ELSE blocks),
                  diffText |-> DiffTextOf(diffBlocks),
                  info |-> [shownFiles |-> shownFiles, shownHunks |-> shownHunks,
                            shownLines |-> shownLines, truncated |-> truncated,
                            suggestedRanges |-> suggestedRanges]]>>
  /\ pc' = "done"
  /\ UNCHANGED <<commandVars, inputVars, files, filtered, refiltered, loopVars, outVars>>

Next ==
  \/ Parse
  \/ Filter
  \/ Refilter
  \/ FormatStart
  \/ RenderFile
  \/ RenderHunk
  \/ RenderFileEnd
  \/ RenderReturn

-----------------------------------------------------------------------------
(* Inputs: the diff text a `git diff` / `gh pr diff` run returns and the   *)
(* parameters of the tool call.                                            *)

SeqsUpTo(S, n) == UNION {[1..k -> S] : k \in 0..n}

\* "diff --git a/<path> b/<path>"
DiffGitLine(path) == DiffGitA \o path \o <<" ", "b", "/">> \o path

NewFileModeLine == NewFileMode \o <<" ", "1", "0", "0", "6", "4", "4">>

\* "@@ -1,2 +1,3 @@" and "@@ -3 +2 @@"
HeaderA == <<"@","@"," ","-","1",",","2"," ","+","1",",","3"," ","@","@">>

HeaderB == <<"@","@"," ","-","3"," ","+","2"," ","@","@">>

HunkHeaders == {HeaderA, HeaderB}

\* body lines: added, removed, context, an added line whose content starts
\* with "++", and the empty piece that follows the final newline
BodyLines == {<<"+", "x">>, <<"-", "x">>, <<" ", "y">>, <<"+", "+", "+", "y">>, <<>>}

PathA == <<"a">>

NoOptions == [paths |-> <<>>, grep |-> <<>>, grepContext |-> 0, lineRange |-> <<>>]

Url == <<"u">>

\* maxLines and maxHunks of the tool call without `context`
DefaultMaxLines == 150

DefaultMaxHunks == 8

MaxBody == 3

MaxRange == 3

MaxContext == 2

InitWith(texts, options, renderOptions) ==
  /\ pc = "parse"
  /\ text \in texts
  /\ opts \in options
  /\ ropts \in renderOptions
  /\ files = <<>>
  /\ filtered = <<>>
  /\ refiltered = <<>>
  /\ fi = 1
  /\ hi = 1
  /\ blocks = <<>>
  /\ diffBlocks = <<>>
  /\ shownHunks = 0
  /\ shownFiles = 0
  /\ shownLines = 0
  /\ truncated = FALSE
  /\ suggestedRanges = <<>>
  /\ fileShown = FALSE
  /\ diffStarted = FALSE
  /\ prettyHeaderAdded = FALSE
  /\ stopped = FALSE
  /\ result = <<>>
  /\ CommandsIdle

\* one file with one hunk
HunkTexts ==
  {<<DiffGitLine(PathA), h>> \o b : h \in HunkHeaders, b \in SeqsUpTo(BodyLines, MaxBody)}

LineRanges ==
  {<<>>} \cup UNION {{<<[start |-> s, end |-> e]>> : e \in s..MaxRange} : s \in 1..MaxRange}

\* the tool passes grepContext ?? 3 with a grep and the caller's value without
HunkOptions ==
  {[paths |-> <<>>, grep |-> g, grepContext |-> c, lineRange |-> r] :
     g \in {<<"x">>, <<"3">>}, c \in 0..MaxContext, r \in LineRanges}
  \cup {[paths |-> <<>>, grep |-> <<>>, grepContext |-> 0, lineRange |-> r] : r \in LineRanges}

HunkRenderOptions ==
  {[prUrl |-> Url, maxLines |-> DefaultMaxLines, maxHunks |-> DefaultMaxHunks]}

Init == InitWith(HunkTexts, HunkOptions, HunkRenderOptions)

Spec == Init /\ [][Next]_vars

\* several files, each header-only or with one small hunk
FilePaths == {<<"a">>, <<"a", ".", "t">>, <<"a", "/", "b">>, <<"b">>}

FileBodies == {<<>>, <<HeaderA, <<"+", "x">>>>, <<HeaderB, <<" ", "y">>>>}

FileTexts == {<<DiffGitLine(p)>> \o b : p \in FilePaths, b \in FileBodies}

MaxFiles == 2

DiffTexts(fileTexts) == {Concat(fs) : fs \in SeqsUpTo(fileTexts, MaxFiles) \ {<<>>}}

FilesOptions ==
  {[paths |-> ps, grep |-> g, grepContext |-> 0, lineRange |-> r] :
     ps \in {<<>>, <<<<"a">>>>, <<<<"b">>, <<"a">>>>},
     g \in {<<>>, <<"x">>, <<"z">>},
     r \in {<<>>, <<[start |-> 1, end |-> 1]>>, <<[start |-> 3, end |-> 3]>>}}

FilesRenderOptions ==
  {[prUrl |-> <<>>, maxLines |-> DefaultMaxLines, maxHunks |-> DefaultMaxHunks],
   [prUrl |-> <<>>, maxLines |-> 1, maxHunks |-> 1]}

InitFiles == InitWith(DiffTexts(FileTexts), FilesOptions, FilesRenderOptions)

SpecFiles == InitFiles /\ [][Next]_vars

\* rendering under small budgets: files with up to two hunks, new or not
RenderHunkA == <<HeaderA, <<"+", "x">>>>

RenderHunkB == <<HeaderB, <<"-", "x">>, <<" ", "y">>>>

RenderBodies == {<<>>, RenderHunkA, RenderHunkA \o RenderHunkB}

RenderFileTexts ==
  {<<DiffGitLine(p)>> \o b : p \in {<<"a">>, <<"b">>}, b \in RenderBodies}
  \cup {<<DiffGitLine(<<"a">>), NewFileModeLine>> \o b : b \in RenderBodies}

MaxLinesBudget == 6

MaxHunksBudget == 2

RenderOptions ==
  {[prUrl |-> u, maxLines |-> l, maxHunks |-> h] :
     u \in {<<>>, Url},
     l \in 1..MaxLinesBudget \cup {DefaultMaxLines},
     h \in 1..MaxHunksBudget \cup {DefaultMaxHunks}}

InitRender == InitWith(DiffTexts(RenderFileTexts), {NoOptions}, RenderOptions)

SpecRender == InitRender /\ [][Next]_vars

\* a truncated new file: one or two hunks in any order, as a diff passed
\* with source "diff" may hold them
MaxRangeBody == 2

MaxChunk == 3

RangeHunkTexts ==
  {<<h>> \o b : h \in HunkHeaders,
                b \in SeqsUpTo({<<"+", "x">>, <<"-", "x">>, <<" ", "y">>}, MaxRangeBody)}

RangeTexts ==
  {<<DiffGitLine(PathA), NewFileModeLine>> \o h1 \o h2 :
     h1 \in RangeHunkTexts, h2 \in RangeHunkTexts \cup {<<>>}}

RangeOptions ==
  {[prUrl |-> <<>>, maxLines |-> l, maxHunks |-> DefaultMaxHunks] : l \in 1..MaxChunk}

InitRanges == InitWith(RangeTexts, {NoOptions}, RangeOptions)

SpecRanges == InitRanges /\ [][Next]_vars

\* any text: lines of every kind the parser tells apart, in any order
MaxParseLines == 4

\* "diff --git a/a b/b", "diff --git q", "diff --git a/x", "@@ -3 +2 @@",
\* "@@ x", "+x", "index", ""
ParseLines ==
  {DiffGitA \o <<"a", " ", "b", "/", "b">>,
   DiffGitPrefix \o <<"q">>,
   DiffGitA \o <<"x">>,
   HeaderB,
   HunkPrefix \o <<"x">>,
   <<"+", "x">>,
   <<"i", "n", "d", "e", "x">>,
   <<>>}

ParseTexts == SeqsUpTo(ParseLines, MaxParseLines) \ {<<>>}

InitParse == InitWith(ParseTexts, {NoOptions}, FilesRenderOptions)

SpecParse == InitParse /\ [][Next]_vars

\* grep strings `new RegExp` rejects: "+", "(.", "*x" and "x\" (nothing to
\* repeat, an unterminated group, a backslash at the end of the pattern)
InvalidPatterns ==
  {<<"+">>, <<"(", ".">>, <<"*", "x">>, <<"x", "\\">>}

\* "+x", " (.", "-(a", "+*x", " x\"
GrepBodyLines ==
  {<<"+", "x">>, <<" ", "(", ".">>, <<"-", "(", "a">>, <<"+", "*", "x">>, <<" ", "x", "\\">>}

MaxGrepBody == 2

GrepTexts ==
  {<<DiffGitLine(PathA), h>> \o b :
     h \in {HeaderB, HunkPrefix \o <<"x">>}, b \in SeqsUpTo(GrepBodyLines, MaxGrepBody)}

GrepOptions ==
  {[paths |-> <<>>, grep |-> g, grepContext |-> c, lineRange |-> <<>>] :
     g \in InvalidPatterns, c \in {0, 1}}

InitGrep == InitWith(GrepTexts, GrepOptions, HunkRenderOptions)

SpecGrep == InitGrep /\ [][Next]_vars

-----------------------------------------------------------------------------
(* The /diff command: the list of changed files.  A Map is the sequence of *)
(* its [key, value] entries in insertion order.                            *)

MapGet(map, key) ==
  LET S == {k \in 1..Len(map) : map[k].key = key}
  IN  IF S = {} THEN <<>> ELSE <<map[CHOOSE k \in S : TRUE].value>>

RECURSIVE MapSet(_, _, _)
MapSet(map, key, value) ==
  IF map = <<>> THEN <<[key |-> key, value |-> value]>>
  ELSE IF Head(map).key = key THEN <<[key |-> key, value |-> value]>> \o Tail(map)
  ELSE <<Head(map)>> \o MapSet(Tail(map), key, value)

MapValues(map) == [k \in 1..Len(map) |-> map[k].value]

\* ctx.cwd, which is its own realpath
Cwd == <<"/", "w">>

\* the files that exist: /w/p, /w/q and the symbolic link /w/l to /w/p
RealPath(resolvedPath) ==
  IF resolvedPath \in {<<"/", "w", "/", "p">>, <<"/", "w", "/", "l">>}
  THEN <<<<"/", "w", "/", "p">>>>
  ELSE IF resolvedPath = <<"/", "w", "/", "q">> THEN <<resolvedPath>>
  ELSE <<>>

IsAbsolute(p) == p # <<>> /\ p[1] = "/"

\* null is <<>>
toCanonicalPath(inputPath) ==
  LET resolvedPath == IF IsAbsolute(inputPath) THEN inputPath
                      ELSE Cwd \o <<"/">> \o inputPath
  IN  RealPath(resolvedPath)

\* first pass, one content block
CollectBlock(calls, block, timestamp) ==
  IF block.type = "toolCall" /\ block.name \in {"write", "edit"} /\ block.path # <<>>
  THEN MapSet(calls, block.id, [path |-> block.path, name |-> block.name,
                                timestamp |-> timestamp])
  ELSE calls

RECURSIVE CollectBlocks(_, _, _)
CollectBlocks(calls, content, timestamp) ==
  IF content = <<>> THEN calls
  ELSE CollectBlocks(CollectBlock(calls, Head(content), timestamp), Tail(content), timestamp)

\* first pass, one branch entry
CollectEntry(calls, entry) ==
  IF entry.type # "message" THEN calls
  ELSE IF entry.role = "assistant" THEN CollectBlocks(calls, entry.content, entry.timestamp)
  ELSE calls

\* second pass, one branch entry
MatchEntry(fm, calls, entry) ==
  IF entry.type # "message" THEN fm
  ELSE IF entry.role # "toolResult" THEN fm
  ELSE LET toolCall == MapGet(calls, entry.toolCallId)
       IN  IF toolCall = <<>> THEN fm
           ELSE LET canonicalPath == toCanonicalPath(toolCall[1].path)
                IN  IF canonicalPath = <<>> THEN fm
                    ELSE LET existing == MapGet(fm, canonicalPath[1])
                         IN  IF existing # <<>>
                             THEN MapSet(fm, canonicalPath[1],
                                    [existing[1] EXCEPT
                                       !.operations = @ \cup {toolCall[1].name},
                                       !.lastTimestamp =
                                         IF entry.timestamp > @ THEN entry.timestamp ELSE @])
                             ELSE MapSet(fm, canonicalPath[1],
                                    [canonicalPath |-> canonicalPath[1],
                                     operations |-> {toolCall[1].name},
                                     lastTimestamp |-> entry.timestamp])

\* stdout.split("\0").filter(Boolean)
RECURSIVE FilterBoolean(_)
FilterBoolean(ss) ==
  IF ss = <<>> THEN <<>>
  ELSE (IF Head(ss) = <<>> THEN <<>> ELSE <<Head(ss)>>) \o FilterBoolean(Tail(ss))

\* status.replace(/\s/g, "") || status.trim()
RECURSIVE RemoveSpaces(_)
RemoveSpaces(s) ==
  IF s = <<>> THEN <<>>
  ELSE (IF Head(s) = " " THEN <<>> ELSE <<Head(s)>>) \o RemoveSpaces(Tail(s))

StatusLabel(status) == RemoveSpaces(status)

\* one iteration of the loop over the entries of git status: the maps and
\* the index after it
StatusStep(fm, sm, entries, i) ==
  LET entry == entries[i]
      status == SubSeq(entry, 1, 2)
      renamed == status[1] \in {"R", "C"} /\ i + 1 <= Len(entries)
      filePath == IF renamed THEN entries[i + 1] ELSE SubSeq(entry, 4, Len(entry))
      next == IF renamed THEN i + 2 ELSE i + 1
      canonicalPath == toCanonicalPath(filePath)
  IN  IF Len(entry) < 4 THEN [fileMap |-> fm, statusMap |-> sm, i |-> i + 1]
      ELSE IF filePath = <<>> \/ canonicalPath = <<>>
      THEN [fileMap |-> fm, statusMap |-> sm, i |-> next]
      ELSE [fileMap |-> IF MapGet(fm, canonicalPath[1]) # <<>> THEN fm
                        ELSE MapSet(fm, canonicalPath[1],
                               [canonicalPath |-> canonicalPath[1],
                                operations |-> {},
                                lastTimestamp |-> 0]),
            statusMap |-> MapSet(sm, canonicalPath[1], StatusLabel(status)),
            i |-> next]

\* path.relative(cwdReal, canonicalPath) for the paths of RealPath
Relative(canonicalPath) ==
  IF StartsWith(canonicalPath, Cwd \o <<"/">>)
  THEN SubSeq(canonicalPath, Len(Cwd) + 2, Len(canonicalPath))
  ELSE IF canonicalPath = Cwd THEN <<>>
  ELSE <<".", ".">> \o canonicalPath

DisplayPath(canonicalPath) ==
  LET relativePath == Relative(canonicalPath)
      isWithinCwd == /\ relativePath # <<>>
                     /\ ~StartsWith(relativePath, <<".", ".">>)
                     /\ ~IsAbsolute(relativePath)
  IN  IF isWithinCwd THEN relativePath ELSE canonicalPath

ResolveFile(file, sm) ==
  LET status == MapGet(sm, file.canonicalPath)
  IN  [canonicalPath |-> file.canonicalPath,
       operations |-> file.operations,
       lastTimestamp |-> file.lastTimestamp,
       status |-> status,
       hasSessionChange |-> Cardinality(file.operations) > 0,
       resolvedPath |-> file.canonicalPath,
       displayPath |-> DisplayPath(file.canonicalPath)]

\* the collation order of the characters of the paths
Collation == <<".", "/", "l", "o", "p", "q", "w">>

CharRank(c) == CHOOSE k \in 1..Len(Collation) : Collation[k] = c

\* a.localeCompare(b)
RECURSIVE LocaleCompare(_, _)
LocaleCompare(a, b) ==
  IF a = <<>> /\ b = <<>> THEN 0
  ELSE IF a = <<>> THEN -1
  ELSE IF b = <<>> THEN 1
  ELSE IF CharRank(Head(a)) # CharRank(Head(b)) THEN CharRank(Head(a)) - CharRank(Head(b))
  ELSE LocaleCompare(Tail(a), Tail(b))

\* variant: oldest first
CompareFiles_OldestFirst(a, b) ==
  IF a.hasSessionChange # b.hasSessionChange THEN (IF a.hasSessionChange THEN -1 ELSE 1)
  ELSE IF a.lastTimestamp # b.lastTimestamp THEN a.lastTimestamp - b.lastTimestamp
  ELSE LocaleCompare(a.displayPath, b.displayPath)

\* the comparator of the sort
CompareFiles(a, b) ==
  IF a.hasSessionChange # b.hasSessionChange THEN (IF a.hasSessionChange THEN -1 ELSE 1)
  ELSE IF a.lastTimestamp # b.lastTimestamp THEN b.lastTimestamp - a.lastTimestamp
  ELSE LocaleCompare(a.displayPath, b.displayPath)

\* Array.prototype.sort is stable: x goes before the first element it
\* precedes
RECURSIVE SortInsert(_, _)
SortInsert(sorted, x) ==
  IF sorted = <<>> THEN <<x>>
  ELSE IF CompareFiles(x, Head(sorted)) < 0 THEN <<x>> \o sorted
  ELSE <<Head(sorted)>> \o SortInsert(Tail(sorted), x)

RECURSIVE SortFiles(_, _)
SortFiles(sorted, rest) ==
  IF rest = <<>> THEN sorted ELSE SortFiles(SortInsert(sorted, Head(rest)), Tail(rest))

\* one iteration of the first loop over the branch
DiffCollectCalls ==
  /\ dpc = "calls"
  /\ IF di > Len(branch)
     THEN dpc' = "results" /\ di' = 1 /\ UNCHANGED toolCalls
     ELSE /\ toolCalls' = CollectEntry(toolCalls, branch[di])
          /\ di' = di + 1
          /\ UNCHANGED dpc
  /\ UNCHANGED <<engineVars, reviewVars, revyCommandVars, branch, statusOut, fileMap,
                 statusMap, changedFiles>>

\* one iteration of the second loop over the branch
DiffMatchResults ==
  /\ dpc = "results"
  /\ IF di > Len(branch)
     THEN dpc' = "status" /\ di' = 1 /\ UNCHANGED fileMap
     ELSE /\ fileMap' = MatchEntry(fileMap, toolCalls, branch[di])
          /\ di' = di + 1
          /\ UNCHANGED dpc
  /\ UNCHANGED <<engineVars, reviewVars, revyCommandVars, branch, statusOut, toolCalls,
                 statusMap, changedFiles>>

\* git status and one iteration of the loop over its entries
DiffReadStatus ==
  /\ dpc = "status"
  /\ LET entries == IF statusOut = <<>> THEN <<>> ELSE FilterBoolean(statusOut[1])
     IN  IF di > Len(entries)
         THEN dpc' = "sort" /\ UNCHANGED <<di, fileMap, statusMap>>
         ELSE LET st == StatusStep(fileMap, statusMap, entries, di)
              IN  /\ fileMap' = st.fileMap
                  /\ statusMap' = st.statusMap
                  /\ di' = st.i
                  /\ UNCHANGED dpc
  /\ UNCHANGED <<engineVars, reviewVars, revyCommandVars, branch, statusOut, toolCalls,
                 changedFiles>>

\* the map and the sort of the entries
DiffSort ==
  /\ dpc = "sort"
  /\ LET values == MapValues(fileMap)
         resolved == [k \in 1..Len(values) |-> ResolveFile(values[k], statusMap)]
     IN  changedFiles' = <<SortFiles(<<>>, resolved)>>
  /\ dpc' = "shown"
  /\ UNCHANGED <<engineVars, reviewVars, revyCommandVars, branch, statusOut, toolCalls,
                 fileMap, statusMap, di>>

NextDiff ==
  \/ DiffCollectCalls
  \/ DiffMatchResults
  \/ DiffReadStatus
  \/ DiffSort

\* the engine is not running
EngineIdle ==
  /\ pc = "idle"
  /\ text = <<>>
  /\ opts = NoOptions
  /\ ropts = [prUrl |-> <<>>, maxLines |-> DefaultMaxLines, maxHunks |-> DefaultMaxHunks]
  /\ files = <<>>
  /\ filtered = <<>>
  /\ refiltered = <<>>
  /\ fi = 1
  /\ hi = 1
  /\ blocks = <<>>
  /\ diffBlocks = <<>>
  /\ shownHunks = 0
  /\ shownFiles = 0
  /\ shownLines = 0
  /\ truncated = FALSE
  /\ suggestedRanges = <<>>
  /\ fileShown = FALSE
  /\ diffStarted = FALSE
  /\ prettyHeaderAdded = FALSE
  /\ stopped = FALSE
  /\ result = <<>>

ToolCall(id, name, p) == [type |-> "toolCall", id |-> id, name |-> name, path |-> p]

Assistant(content) ==
  [type |-> "message", role |-> "assistant", content |-> content, timestamp |-> 0]

ToolResult(id, timestamp) ==
  [type |-> "message", role |-> "toolResult", toolCallId |-> id, timestamp |-> timestamp]

MaxTime == 2

MaxBranch == 3

\* assistant messages that write "gone" (no such file), edit "/w/q", write
\* "p" and edit its link "l", write "p" and edit "/w/q", read "p"; tool
\* results; a user message; an entry that is not a message
BranchEntries ==
  {Assistant(<<ToolCall(1, "write", <<"g", "o", "n", "e">>)>>),
   Assistant(<<ToolCall(2, "edit", <<"/", "w", "/", "q">>)>>),
   Assistant(<<ToolCall(1, "write", <<"p">>), ToolCall(2, "edit", <<"l">>)>>),
   Assistant(<<ToolCall(1, "write", <<"p">>), ToolCall(2, "edit", <<"/", "w", "/", "q">>)>>),
   Assistant(<<[type |-> "text"], ToolCall(2, "read", <<"p">>)>>),
   [type |-> "message", role |-> "user", timestamp |-> 0],
   [type |-> "compaction"]}
  \cup {ToolResult(id, t) : id \in {1, 2}, t \in 1..MaxTime}

\* git status failed; "?? q"; " M p" and the rename "R  q" from "gone"
StatusOutputs ==
  {<<>>,
   <<<<<<"?", "?", " ", "q">>, <<>>>>>>,
   <<<<<<" ", "M", " ", "p">>, <<"R", " ", " ", "q">>, <<"g", "o", "n", "e">>, <<>>>>>>}

InitDiff ==
  /\ EngineIdle
  /\ RevyCommandIdle
  /\ ReviewIdle
  /\ dpc = "calls"
  /\ branch \in SeqsUpTo(BranchEntries, MaxBranch)
  /\ statusOut \in StatusOutputs
  /\ toolCalls = <<>>
  /\ fileMap = <<>>
  /\ statusMap = <<>>
  /\ di = 1
  /\ changedFiles = <<>>

SpecDiff == InitDiff /\ [][NextDiff]_vars

-----------------------------------------------------------------------------
(* The /revy command: the handler and runBranchedReview.  The texts of the *)
(* models are the strings "" and "findings"/"summary" (shorter than the    *)
(* 2000 characters from which the fallback summary is cut).                *)

\* parts[0]?.toLowerCase() for the words drawn below
ToLowerCase(word) ==
  IF word = "Uncommitted" THEN "uncommitted" ELSE word

\* parseArgs on args.trim().split(/\s+/); <<>> for an empty args and for null
parseArgs(parts) ==
  IF parts = <<>> THEN <<>>
  ELSE LET subcommand == ToLowerCase(parts[1])
       IN  IF subcommand = "uncommitted" THEN <<[type |-> "uncommitted"]>>
           ELSE IF subcommand = "branch"
           THEN IF Len(parts) < 2 THEN <<>>
                ELSE <<[type |-> "baseBranch", branch |-> parts[2]]>>
           ELSE IF subcommand = "commit"
           THEN IF Len(parts) < 2 THEN <<>>
                ELSE <<[type |-> "commit", sha |-> parts[2]]>>
           ELSE IF subcommand = "custom"
           THEN IF Len(parts) < 2 THEN <<>>
                ELSE <<[type |-> "custom", instructions |-> parts[2]]>>
           ELSE <<>>

\* summarizeReview: the heading and the body of the message
summarizeReview(w, reviewText) ==
  IF ~w.summaryKey THEN [heading |-> "Branched Review Summary", body |-> reviewText]
  ELSE IF w.summaryResponse = <<>>
  THEN [heading |-> "Branched Review Results", body |-> reviewText]
  ELSE IF w.summaryResponse[1].stopReason \in {"aborted", "error"}
  THEN [heading |-> "Branched Review Results", body |-> reviewText]
  ELSE [heading |-> "Branched Review Summary", body |-> w.summaryResponse[1].text]

revyOut == <<reviewResult, reviewEnd, action, sent, editorText>>

\* the handler of /revy up to the loader of runBranchedReview
RevyStart ==
  /\ rpc = "start"
  /\ LET parsed == parseArgs(world.args)
         target == IF parsed # <<>> THEN parsed ELSE world.selected
     IN  IF ~world.hasUI
         THEN /\ notices' = Append(notices, "Branched review requires interactive mode")
              /\ rpc' = "end"
         ELSE IF world.gitCode # 0
         THEN /\ notices' = Append(notices, "Not a git repository")
              /\ rpc' = "end"
         ELSE IF target = <<>>
         THEN /\ notices' = Append(notices, "Review cancelled")
              /\ rpc' = "end"
         ELSE IF ~world.model
         THEN /\ notices' = Append(notices, "No model selected")
              /\ rpc' = "end"
         ELSE /\ notices' = notices
              /\ rpc' = "selecting"
  /\ UNCHANGED <<engineVars, reviewVars, diffCommandVars, world, revyOut>>

\* loader.onAbort while the review runs: done({ text: "", aborted: true });
\* a later call of done by doReview has no effect
RevyAbort ==
  /\ rpc \in {"selecting", "prompt", "completing"}
  /\ reviewResult' = <<[text |-> "", aborted |-> TRUE]>>
  /\ reviewEnd' = "abort"
  /\ rpc' = "checking"
  /\ UNCHANGED <<engineVars, reviewVars, diffCommandVars, world, action, sent, notices,
                 editorText>>

\* doReview failed: the catch handler
ReviewFailed ==
  /\ notices' = Append(notices, "Review failed")
  /\ reviewResult' = <<[text |-> "", aborted |-> TRUE]>>
  /\ reviewEnd' = "failure"
  /\ rpc' = "checking"

\* selectReviewModel
RevySelectModel ==
  /\ rpc = "selecting"
  /\ IF ~world.reviewKey
     THEN ReviewFailed
     ELSE rpc' = "prompt" /\ UNCHANGED <<reviewResult, reviewEnd, notices>>
  /\ UNCHANGED <<engineVars, reviewVars, diffCommandVars, world, action, sent, editorText>>

\* buildFullReviewPrompt
RevyBuildPrompt ==
  /\ rpc = "prompt"
  /\ IF ~world.promptBuilt
     THEN ReviewFailed
     ELSE rpc' = "completing" /\ UNCHANGED <<reviewResult, reviewEnd, notices>>
  /\ UNCHANGED <<engineVars, reviewVars, diffCommandVars, world, action, sent, editorText>>

\* complete() and the rest of doReview
RevyComplete ==
  /\ rpc = "completing"
  /\ IF world.response = <<>>
     THEN ReviewFailed
     ELSE IF world.response[1].stopReason = "aborted"
     THEN /\ reviewResult' = <<[text |-> "", aborted |-> TRUE]>>
          /\ reviewEnd' = "abort"
          /\ rpc' = "checking"
          /\ UNCHANGED notices
     ELSE /\ reviewResult' = <<[text |-> world.response[1].text, aborted |-> FALSE]>>
          /\ reviewEnd' = "returned"
          /\ rpc' = "checking"
          /\ UNCHANGED notices
  /\ UNCHANGED <<engineVars, reviewVars, diffCommandVars, world, action, sent, editorText>>

\* if (reviewResult.aborted || !reviewResult.text)
RevyCheck ==
  /\ rpc = "checking"
  /\ IF reviewResult[1].aborted \/ reviewResult[1].text = ""
     THEN /\ notices' = Append(notices, "Review cancelled")
          /\ rpc' = "end"
     ELSE /\ notices' = notices
          /\ rpc' = "choosing"
  /\ UNCHANGED <<engineVars, reviewVars, diffCommandVars, world, revyOut>>

\* the result dialog and the branches on its answer; <<>> is null
RevyChoose ==
  /\ rpc = "choosing"
  /\ \E choice \in {<<"inject">>, <<"copy">>, <<"discard">>, <<>>} :
       /\ action' = choice
       /\ IF choice = <<>> \/ choice = <<"discard">>
          THEN /\ notices' = Append(notices, "Review discarded")
               /\ rpc' = "end"
               /\ UNCHANGED editorText
          ELSE IF choice = <<"copy">>
          THEN /\ editorText' = <<reviewResult[1].text>>
               /\ notices' = Append(notices, "Review loaded into editor - copy from there")
               /\ rpc' = "end"
          ELSE /\ notices' = Append(notices, "Summarizing review for injection...")
               /\ rpc' = "summarizing"
               /\ UNCHANGED editorText
  /\ UNCHANGED <<engineVars, reviewVars, diffCommandVars, world, reviewResult, reviewEnd, sent>>

\* summarizeReview and pi.sendMessage
RevyInject ==
  /\ rpc = "summarizing"
  /\ sent' = Append(sent, [customType |-> "branched-review",
                           content |-> summarizeReview(world, reviewResult[1].text),
                           display |-> TRUE])
  /\ notices' = Append(notices, "Review findings added to conversation")
  /\ rpc' = "end"
  /\ UNCHANGED <<engineVars, reviewVars, diffCommandVars, world, reviewResult, reviewEnd, action,
                 editorText>>

NextRevy ==
  \/ RevyStart
  \/ RevyAbort
  \/ RevySelectModel
  \/ RevyBuildPrompt
  \/ RevyComplete
  \/ RevyCheck
  \/ RevyChoose
  \/ RevyInject

\* the answers of complete(): <<>> when it throws
Responses ==
  {<<>>} \cup {<<[stopReason |-> s, text |-> t]>> :
                 s \in {"stop", "aborted", "error"}, t \in {"", "findings"}}

SummaryResponses ==
  {<<>>, <<[stopReason |-> "stop", text |-> "summary"]>>,
   <<[stopReason |-> "error", text |-> ""]>>}

ArgParts ==
  {<<>>, <<"Uncommitted">>, <<"branch">>, <<"branch", "main">>, <<"commit", "abc">>,
   <<"bogus">>}

Worlds ==
  [hasUI : BOOLEAN, gitCode : {0, 128}, args : ArgParts,
   selected : {<<>>, <<[type |-> "uncommitted"]>>},
   model : BOOLEAN, reviewKey : BOOLEAN, promptBuilt : BOOLEAN,
   response : Responses, summaryKey : BOOLEAN, summaryResponse : SummaryResponses]

InitRevy ==
  /\ EngineIdle
  /\ DiffCommandIdle
  /\ ReviewIdle
  /\ rpc = "start"
  /\ world \in Worlds
  /\ reviewResult = <<>>
  /\ reviewEnd = "none"
  /\ action = <<>>
  /\ sent = <<>>
  /\ notices = <<>>
  /\ editorText = <<>>

SpecRevy == InitRevy /\ [][NextRevy]_vars

-----------------------------------------------------------------------------
(* Properties.  "Added", "removed" and "context" are the classes of        *)
(* section 4.2: a line that starts with "+" but not with "+++" is added,   *)
(* one that starts with "-" but not with "---" is removed, one that starts *)
(* with a space is context.                                                *)

AfterFilter == pc \notin {"parse", "filter"}

AfterRefilter == pc \notin {"parse", "filter", "refilter"}

RECURSIVE IsSubseq(_, _)
IsSubseq(a, b) ==
  IF a = <<>> THEN TRUE
  ELSE IF b = <<>> THEN FALSE
  ELSE IF Head(a) = Head(b) THEN IsSubseq(Tail(a), Tail(b))
  ELSE IsSubseq(a, Tail(b))

\* the elements of xs at the indices S, in order
RECURSIVE Pick(_, _)
Pick(xs, S) == IF S = {} THEN <<>> ELSE <<xs[Min(S)]>> \o Pick(xs, S \ {Min(S)})

RECURSIVE AllHunks(_)
AllHunks(fs) == IF fs = <<>> THEN <<>> ELSE Head(fs).hunks \o AllHunks(Tail(fs))

\* added and context lines of a hunk before index i (the header is index 1)
NewBefore(lines, i) ==
  Cardinality({k \in 2..(i - 1) : IsAdded(lines[k]) \/ IsContext(lines[k])})

\* removed and context lines of a hunk before index i
OldBefore(lines, i) ==
  Cardinality({k \in 2..(i - 1) : IsRemoved(lines[k]) \/ IsContext(lines[k])})

\* the position in prettyLines of the line at index i
PrettyIndex(lines, i) == Cardinality({k \in 1..i : ~StartsWith(lines[k], AtAt)})

\* C1: filtering an already filtered result again with the same options
\* gives the same files, hunks, lines and start numbers.
C1_FilterIdempotent == AfterRefilter => refiltered = filtered

\* C3: every hunk filter returns replays to the numbers its lines have in
\* the unfiltered hunk: the numbered lines diffText prints for it are, in
\* order, among the numbered lines printed for the hunk it was cut from.
C3_FilteredNumbersAccurate ==
  AfterFilter =>
    \A i \in 1..Len(filtered) : \A j \in 1..Len(filtered[i].hunks) :
      \E i0 \in 1..Len(files) : \E j0 \in 1..Len(files[i0].hunks) :
        /\ files[i0].hunks[j0].header = filtered[i].hunks[j].header
        /\ IsSubseq(PrettyLines(filtered[i].hunks[j]), PrettyLines(files[i0].hunks[j0]))

C4_HunkNumbers(h) ==
  LET p == PrettyLines(h)
      added == {i \in 2..Len(h.lines) : IsAdded(h.lines[i])}
      removed == {i \in 2..Len(h.lines) : IsRemoved(h.lines[i])}
      target == hunkLinkTarget(h)
  IN  /\ \A i \in 2..Len(h.lines) :
           LET l == h.lines[i]
               q == p[PrettyIndex(h.lines, i)]
           IN  /\ IsAdded(l) =>
                    q = <<"+">> \o ToStr(h.newStart + NewBefore(h.lines, i)) \o <<" ">> \o Tail(l)
               /\ IsRemoved(l) =>
                    q = <<"-">> \o ToStr(h.oldStart + OldBefore(h.lines, i)) \o <<" ">> \o Tail(l)
               /\ IsContext(l) =>
                    q = <<" ">> \o ToStr(h.newStart + NewBefore(h.lines, i)) \o <<" ">> \o Tail(l)
      /\ added # {} =>
           target = [line |-> h.newStart + NewBefore(h.lines, Min(added)), side |-> "R"]
      /\ added = {} /\ removed # {} =>
           target = [line |-> h.oldStart + OldBefore(h.lines, Min(removed)), side |-> "L"]

\* C4: the replay of render and of hunkLinkTarget labels an added line with
\* newStart + (added and context lines before it), a removed line with
\* oldStart + (removed and context lines before it), a context line with
\* its new-side number, for every hunk of a parsed diff.
C4_ReplayNumbers ==
  pc # "parse" =>
    \A i \in 1..Len(files) : \A j \in 1..Len(files[i].hunks) : C4_HunkNumbers(files[i].hunks[j])

\* "@@ -1,2 +1,3 @@" with a context line, then an added line, rendered
\* without filters: diffText holds "+2 x".
C4_Witness ==
  /\ pc = "done"
  /\ opts.grep = <<>> /\ opts.lineRange = <<>>
  /\ files[1].hunks[1].lines = <<HeaderA, <<" ", "y">>, <<"+", "x">>, <<"-", "x">>>>
  /\ \E k \in 1..Len(result[1].diffText) : result[1].diffText[k] = <<"+", "2", " ", "x">>

\* the hunk a range slice has to return for h: <<>> when nothing is retained
C5_Expected(h, r) ==
  LET keep == {i \in 2..Len(h.lines) :
                 /\ IsAdded(h.lines[i]) \/ IsContext(h.lines[i])
                 /\ r.start <= h.newStart + NewBefore(h.lines, i)
                 /\ h.newStart + NewBefore(h.lines, i) <= r.end}
  IN  IF keep = {} THEN <<>>
      ELSE <<[header |-> h.header, oldStart |-> h.oldStart, newStart |-> h.newStart,
              lines |-> <<h.lines[1]>> \o Pick(h.lines, keep)]>>

RECURSIVE C5_ExpectedAll(_, _)
C5_ExpectedAll(hs, r) ==
  IF hs = <<>> THEN <<>> ELSE C5_Expected(Head(hs), r) \o C5_ExpectedAll(Tail(hs), r)

\* C5: a range slice of a parsed hunk is its header followed by exactly the
\* added and context lines whose new-side number lies in [start, end], in
\* order; a hunk with no such line is dropped.
C5_RangeSlice ==
  AfterFilter /\ opts.lineRange # <<>> /\ opts.grep = <<>> /\ opts.paths = <<>> =>
    AllHunks(filtered) = C5_ExpectedAll(AllHunks(files), opts.lineRange[1])

\* lines 1..3 of the new file are " y", "+x", "+x" with a removed line
\* between; the slice [2, 2] keeps the header and the first "+x" only.
C5_Witness ==
  /\ AfterFilter
  /\ opts.lineRange = <<[start |-> 2, end |-> 2]>> /\ opts.grep = <<>>
  /\ files[1].hunks[1].newStart = 1
  /\ Len(files[1].hunks[1].lines) = 4
  /\ \E i \in 2..4 : IsRemoved(files[1].hunks[1].lines[i])
  /\ Len(filtered[1].hunks) = 1
  /\ filtered[1].hunks[1].lines = <<HeaderA, <<"+", "x">>>>

\* the header lines of the files of fs, in order
HeaderSeq(fs) == [i \in 1..Len(fs) |-> fs[i].headerLines]

\* C6: a file without hunks is in the result of filter only if it had no
\* hunk in the input, and no file without hunks is in it when grep is active.
C6_ZeroHunkFiles ==
  AfterFilter =>
    /\ \A i \in 1..Len(filtered) :
         Len(filtered[i].hunks) = 0 =>
           \E i0 \in 1..Len(files) :
             /\ files[i0].headerLines = filtered[i].headerLines
             /\ Len(files[i0].hunks) = 0
    /\ compileGrep(opts.grep) # <<>> => \A i \in 1..Len(filtered) : Len(filtered[i].hunks) > 0
    /\ opts.grep = <<>> /\ opts.lineRange = <<>> =>
         \A i0 \in 1..Len(files) :
           Len(files[i0].hunks) = 0 /\ (opts.paths = <<>> \/ PathKept(files[i0], opts.paths)) =>
             \E i \in 1..Len(filtered) : filtered[i] = files[i0]

\* q is p, or q followed by "/" starts p
C7_Matches(p, q) ==
  /\ Len(p) >= Len(q)
  /\ \A k \in 1..Len(q) : p[k] = q[k]
  /\ Len(p) = Len(q) \/ p[Len(q) + 1] = "/"

C7_Listed(p) == \E k \in 1..Len(opts.paths) : C7_Matches(p, opts.paths[k])

\* C7: with a non-empty paths list only files whose path is a listed prefix
\* or lies below one are kept, in their input order; with paths as the only
\* filter the result is exactly those files.
C7_PathFilter ==
  AfterFilter /\ opts.paths # <<>> =>
    /\ \A i \in 1..Len(filtered) : C7_Listed(filtered[i].path)
    /\ IsSubseq(HeaderSeq(filtered), HeaderSeq(files))
    /\ opts.grep = <<>> /\ opts.lineRange = <<>> =>
         filtered = Pick(files, {i \in 1..Len(files) : C7_Listed(files[i].path)})

\* paths ["a"] with the files a.t and a/b: a.t is excluded, a/b included
C7_Witness ==
  /\ AfterFilter
  /\ opts.paths = << <<"a">> >> /\ opts.grep = <<>> /\ opts.lineRange = <<>>
  /\ Len(files) = 2
  /\ files[1].path = <<"a", ".", "t">>
  /\ files[2].path = <<"a", "/", "b">>
  /\ filtered = <<files[2]>>

\* the literal pat occurs in line
C8_Includes(line, pat) ==
  \E i \in 1..(Len(line) - Len(pat) + 1) : SubSeq(line, i, i + Len(pat) - 1) = pat

C8_Matching(h, pat) == {i \in 1..Len(h.lines) : C8_Includes(h.lines[i], pat)}

\* the hunk grep has to return for h: <<>> when it is dropped
C8_Expected(h, pat, c) ==
  IF C8_Matching(h, pat) = {} THEN <<>>
  ELSE IF c <= 0 THEN <<h>>
  ELSE <<[header |-> h.header, oldStart |-> h.oldStart, newStart |-> h.newStart,
          lines |-> Pick(h.lines,
                         {i \in 1..Len(h.lines) :
                            i = 1 \/ \E m \in C8_Matching(h, pat) : m - c <= i /\ i <= m + c})]>>

RECURSIVE C8_ExpectedAll(_, _, _)
C8_ExpectedAll(hs, pat, c) ==
  IF hs = <<>> THEN <<>>
  ELSE C8_Expected(Head(hs), pat, c) \o C8_ExpectedAll(Tail(hs), pat, c)

\* C8: with grep and grepContext = c > 0 a hunk with a match keeps line 0
\* and every line at most c lines away from a match, and nothing else, in
\* order; with c <= 0 it is unchanged; a hunk with no match is dropped.
C8_GrepContext ==
  AfterFilter /\ opts.grep # <<>> /\ opts.lineRange = <<>> /\ opts.paths = <<>> =>
    AllHunks(filtered) = C8_ExpectedAll(AllHunks(files), opts.grep, opts.grepContext)

\* the only match is the last of three content lines, grepContext = 1: the
\* first content line is cut, the header stays
C8_Witness ==
  /\ AfterFilter
  /\ opts.grep = <<"x">> /\ opts.grepContext = 1 /\ opts.lineRange = <<>>
  /\ Len(files[1].hunks[1].lines) = 4
  /\ C8_Matching(files[1].hunks[1], <<"x">>) = {4}
  /\ Len(filtered[1].hunks) = 1
  /\ filtered[1].hunks[1].lines = Pick(files[1].hunks[1].lines, {1, 3, 4})

C9_Message ==
  <<"N","o"," ","d","i","f","f"," ","o","u","t","p","u","t"," ","(","f","i","l","t","e","r","s"," ",
    "r","e","m","o","v","e","d"," ","a","l","l"," ","h","u","n","k","s",")",".">>

C9_NoLineMatches ==
  \A i \in 1..Len(files) : \A j \in 1..Len(files[i].hunks) :
    C8_Matching(files[i].hunks[j], opts.grep) = {}

\* C9: with a grep that no hunk line matches filter returns no file, and
\* render of no file returns the fixed message, an empty diffText and
\* zero-valued info, whatever the budgets.
C9_EmptyFilter ==
  /\ AfterFilter /\ opts.grep # <<>> /\ C9_NoLineMatches => filtered = <<>>
  /\ pc = "done" /\ filtered = <<>> =>
       result = <<[text |-> <<C9_Message>>, diffText |-> << <<>> >>,
                   info |-> [shownFiles |-> 0, shownHunks |-> 0, shownLines |-> 0,
                             truncated |-> FALSE, suggestedRanges |-> <<>>]]>>

\* grep "z" against a header-only file and a file with a hunk
C9_Witness ==
  /\ pc = "done"
  /\ opts.grep = <<"z">> /\ opts.paths = <<>> /\ opts.lineRange = <<>>
  /\ Len(files) = 2
  /\ Len(files[1].hunks) = 0
  /\ Len(files[2].hunks) = 1
  /\ ropts.maxLines = 1
  /\ result # <<>>
  /\ result[1].text = <<C9_Message>>

\* C2: the lines of the emitted blocks never exceed maxLines.
C2_LineBudget ==
  /\ shownLines <= ropts.maxLines
  /\ result # <<>> => result[1].info.shownLines <= ropts.maxLines

C10_InputRemains ==
  \/ pc = "file" /\ fi <= Len(filtered)
  \/ pc = "hunk" /\ hi <= Len(filtered[fi].hunks)

\* a budget is found reached before a file or before a hunk
C10_Observed ==
  C10_InputRemains /\ (shownLines >= ropts.maxLines \/ shownHunks >= ropts.maxHunks)

\* what is left to do: the files not yet begun, and the position in the
\* current one; every step of the pipeline lowers it
C10_Left ==
  LET n == Len(filtered)
      k == 4 + Len(AllHunks(filtered))
  IN  CASE pc = "parse" -> (n + 2) * k + 4
        [] pc = "filter" -> (n + 2) * k + 3
        [] pc = "refilter" -> (n + 2) * k + 2
        [] pc = "format" -> (n + 2) * k + 1
        [] pc = "file" -> (n + 2 - fi) * k + k - 1
        [] pc = "hunk" -> (n + 2 - fi) * k + 2 + Len(filtered[fi].hunks) - hi
        [] pc = "fileEnd" -> (n + 2 - fi) * k
        [] pc = "return" -> 1
        [] OTHER -> 0

\* C10: render terminates (no step is stuck before the return and every
\* step lowers what is left), truncated or with all input consumed; from
\* the moment a reached budget is observed before a file or a hunk,
\* truncated is set and no further block is emitted.
C10_SinglePass ==
  [][/\ pc' = "done" \/ (ENABLED Next)'
     /\ pc \notin {"parse", "filter"} => C10_Left' < C10_Left
     /\ pc' = "done" /\ Len(filtered) > 0 =>
          /\ ~result'[1].info.truncated => fi = Len(filtered) + 1
          /\ stopped => result'[1].info.truncated
     /\ C10_Observed \/ stopped =>
          /\ truncated' /\ stopped'
          /\ blocks' = blocks /\ diffBlocks' = diffBlocks
          /\ shownLines' = shownLines /\ shownHunks' = shownHunks]_vars

\* the hunk budget stops the first file after one of its two hunks, and the
\* header-only file that follows is not rendered
C10_Witness ==
  /\ pc = "done"
  /\ stopped
  /\ Len(filtered) = 2
  /\ Len(filtered[1].hunks) = 2
  /\ Len(filtered[2].hunks) = 0
  /\ shownHunks = 1
  /\ shownFiles = 1
  /\ fi = 2

-----------------------------------------------------------------------------
(* Suggested ranges, link targets, the parser and the layout of diffText *)

Done == pc = "done" /\ result # <<>>

DistinctPaths(fs) == \A i, j \in 1..Len(fs) : fs[i].path = fs[j].path => i = j

HunksBefore(fs, i) == Len(AllHunks(SubSeq(fs, 1, i - 1)))

\* The files are visited in order and every visited file is shown, so the
\* files after the first info.shownFiles ones were omitted in whole; the
\* last visited one was cut when some of its hunks were not rendered or its
\* last rendered block ends with the truncation mark.
C11_Omitted(i) ==
  LET info == result[1].info
  IN  \/ i > info.shownFiles
      \/ /\ i = info.shownFiles
         /\ \/ HunksBefore(filtered, i + 1) > info.shownHunks
            \/ \E b \in 1..Len(blocks) : blocks[b][Len(blocks[b])] = TruncatedLine

C11_HasEntry(path) ==
  \E e \in 1..Len(result[1].info.suggestedRanges) :
    result[1].info.suggestedRanges[e].path = path

\* C11: after render, a file has an entry in info.suggestedRanges exactly
\* when it is a new-file diff and part or all of it was omitted by
\* truncation.
C11_RangesOffered ==
  Done /\ Len(filtered) > 0 /\ DistinctPaths(filtered) =>
    \A i \in 1..Len(filtered) :
      C11_HasEntry(filtered[i].path) <=> (isNewFileDiff(filtered[i]) /\ C11_Omitted(i))

\* the new-side numbers of the added and context lines of a file
C12_NewLines(file) ==
  UNION {{file.hunks[h].newStart + NewBefore(file.hunks[h].lines, i) :
            i \in {k \in 2..Len(file.hunks[h].lines) :
                     IsAdded(file.hunks[h].lines[k]) \/ IsContext(file.hunks[h].lines[k])}} :
         h \in 1..Len(file.hunks)}

MaxIn(S) == CHOOSE x \in S : \A y \in S : y <= x

\* "<start>-<end>" read back as numbers
C12_Range(str) ==
  LET d == Min({k \in 1..Len(str) : str[k] = "-"})
  IN  [start |-> Number(SubSeq(str, 1, d - 1)), end |-> Number(SubSeq(str, d + 1, Len(str)))]

C12_Partition(file, ranges, chunkSize) ==
  LET N == C12_NewLines(file)
      rs == [j \in 1..Len(ranges) |-> C12_Range(ranges[j])]
  IN  N # {} =>
        /\ Len(rs) >= 1
        /\ rs[1].start = Min(N)
        /\ rs[Len(rs)].end = MaxIn(N)
        /\ \A j \in 1..(Len(rs) - 1) : rs[j + 1].start = rs[j].end + 1
        /\ \A j \in 1..Len(rs) :
             rs[j].start <= rs[j].end /\ rs[j].end - rs[j].start + 1 <= chunkSize
        /\ \A n \in N : \E j \in 1..Len(rs) : rs[j].start <= n /\ n <= rs[j].end

\* C12: the ranges suggested for a file with an added or context line run
\* from the minimum to the maximum new-side number of those lines without
\* gap or overlap, each of at most maxLines numbers, and cover every one of
\* them.
C12_RangesPartition ==
  \A e \in 1..Len(suggestedRanges) :
    \A i \in 1..Len(filtered) :
      filtered[i].path = suggestedRanges[e].path =>
        C12_Partition(filtered[i], suggestedRanges[e].ranges, ropts.maxLines)

C13_Expected(h) ==
  LET added == {i \in 2..Len(h.lines) : IsAdded(h.lines[i])}
      removed == {i \in 2..Len(h.lines) : IsRemoved(h.lines[i])}
  IN  IF added # {}
      THEN [line |-> h.newStart + NewBefore(h.lines, Min(added)), side |-> "R"]
      ELSE IF removed # {}
      THEN [line |-> h.oldStart + OldBefore(h.lines, Min(removed)), side |-> "L"]
      ELSE [line |-> h.newStart, side |-> "R"]

\* C13: the link target of a hunk is the new-side number of its first added
\* line with side R if it has an added line, else the old-side number of
\* its first removed line with side L, else newStart with side R; the link
\* block rendered for the hunk points at that target.
C13_HunkTarget ==
  /\ pc # "parse" =>
       \A i \in 1..Len(files) : \A j \in 1..Len(files[i].hunks) :
         hunkLinkTarget(files[i].hunks[j]) = C13_Expected(files[i].hunks[j])
  /\ Done /\ Len(filtered) = 1 /\ Len(filtered[1].hunks) = 1 /\ ropts.prUrl # <<>> =>
       LET t == C13_Expected(filtered[1].hunks[1])
       IN  blocks[Len(blocks)] =
             <<GitHubLabel \o buildGithubLink(ropts.prUrl, filtered[1].path, t.line, t.side)>>

\* "@@ -3 +2 @@" with a removed line before an added one: the link goes to
\* R2, the added line, not to L3
C13_Witness ==
  /\ Done
  /\ opts = NoOptions
  /\ files[1].hunks[1].lines = <<HeaderB, <<"-", "x">>, <<"+", "x">>>>
  /\ hunkLinkTarget(filtered[1].hunks[1]) = [line |-> 2, side |-> "R"]
  /\ \E k \in 1..Len(result[1].text) :
       result[1].text[k] = GitHubLabel \o Url \o ChangesHash \o DiffDash
                             \o diffAnchor(PathA) \o <<"R", "2">>

\* the indices of the lines of a text that start with "diff --git "
C14_Markers(lines) == {i \in 1..Len(lines) : StartsWith(lines[i], DiffGitPrefix)}

\* the k-th smallest element of S
RECURSIVE Nth(_, _)
Nth(S, k) == IF k = 1 THEN Min(S) ELSE Nth(S \ {Min(S)}, k - 1)

\* the ways to read a line as "diff --git a/<old> b/<new>": the lengths of <old>
C14_Reads(line) ==
  {n \in 1..(Len(line) - Len(DiffGitA) - 4) :
     /\ StartsWith(line, DiffGitA)
     /\ SubSeq(line, Len(DiffGitA) + n + 1, Len(DiffGitA) + n + 3) = <<" ", "b", "/">>}

C14_New(line) ==
  SubSeq(line, Len(DiffGitA) + Min(C14_Reads(line)) + 4, Len(line))

C14_Entries(fallback(_)) ==
  pc # "parse" =>
    /\ Len(files) = Cardinality(C14_Markers(text))
    /\ \A k \in 1..Len(files) :
         LET line == text[Nth(C14_Markers(text), k)]
         IN  /\ files[k].headerLines[1] = line
             /\ files[k].path = IF C14_Reads(line) # {} THEN C14_New(line)
                                ELSE fallback(line)

C14_RawLine(line) == line

C14_WithoutMarker(line) == SubSeq(line, Len(DiffGitPrefix) + 1, Len(line))

RECURSIVE C15_HunkLines(_)
C15_HunkLines(hs) == IF hs = <<>> THEN <<>> ELSE Head(hs).lines \o C15_HunkLines(Tail(hs))

\* headerLines, then the lines of each hunk, file after file
RECURSIVE C15_Flat(_)
C15_Flat(fs) ==
  IF fs = <<>> THEN <<>>
  ELSE Head(fs).headerLines \o C15_HunkLines(Head(fs).hunks) \o C15_Flat(Tail(fs))

C15_NoDigit(line) == \A k \in 1..Len(line) : ~IsDigit(line[k])

\* C15: the lines before the first "diff --git " line are discarded and the
\* parsed files hold, in order and once each, the lines from it to the end:
\* a file begins at each "diff --git " line, a hunk at each "@@ " line, whose
\* lines[0] is that header, and a header that cannot be parsed opens a hunk
\* with oldStart = newStart = 0.
C15_ParserPartition ==
  pc # "parse" =>
    LET M == C14_Markers(text)
    IN  /\ C15_Flat(files) = IF M = {} THEN <<>> ELSE SubSeq(text, Min(M), Len(text))
        /\ \A i \in 1..Len(files) :
             /\ StartsWith(files[i].headerLines[1], DiffGitPrefix)
             /\ \A k \in 2..Len(files[i].headerLines) :
                  /\ ~StartsWith(files[i].headerLines[k], DiffGitPrefix)
                  /\ ~StartsWith(files[i].headerLines[k], HunkPrefix)
             /\ \A j \in 1..Len(files[i].hunks) :
                  LET h == files[i].hunks[j]
                  IN  /\ Len(h.lines) >= 1
                      /\ h.lines[1] = h.header
                      /\ StartsWith(h.header, HunkPrefix)
                      /\ \A k \in 2..Len(h.lines) :
                           /\ ~StartsWith(h.lines[k], DiffGitPrefix)
                           /\ ~StartsWith(h.lines[k], HunkPrefix)
                      /\ C15_NoDigit(h.header) => h.oldStart = 0 /\ h.newStart = 0
                      /\ h.header = HeaderB => h.oldStart = 3 /\ h.newStart = 2

\* "+x" before the first file is dropped; "@@ x" opens a hunk numbered 0
C15_Witness ==
  /\ pc = "filter"
  /\ text = <<<<"+", "x">>, DiffGitPrefix \o <<"q">>, HunkPrefix \o <<"x">>, <<"+", "x">>>>
  /\ Len(files) = 1
  /\ files[1].headerLines = <<DiffGitPrefix \o <<"q">>>>
  /\ Len(files[1].hunks) = 1
  /\ files[1].hunks[1].lines = <<HunkPrefix \o <<"x">>, <<"+", "x">>>>
  /\ files[1].hunks[1].oldStart = 0
  /\ files[1].hunks[1].newStart = 0

\* C16: with a grep string that does not compile, filter returns a result,
\* and it is the one of a literal search for the string: a hunk with a line
\* that contains the string is kept (cut to the context window when
\* grepContext > 0), every other hunk is dropped, and so is a file left
\* without hunks.
C16_InvalidGrepLiteral ==
  AfterFilter /\ opts.grep \in InvalidPatterns =>
    LET expected == C8_ExpectedAll(AllHunks(files), opts.grep, opts.grepContext)
    IN  /\ AllHunks(filtered) = expected
        /\ Len(filtered) = (IF expected = <<>> THEN 0 ELSE 1)

\* "(." is searched literally: the hunk whose lines hold "(a" but not "(."
\* is dropped, the one with "(." is kept
C16_WitnessDropped ==
  /\ AfterFilter
  /\ opts.grep = <<"(", ".">>
  /\ files[1].hunks[1].lines = <<HeaderB, <<"-", "(", "a">>>>
  /\ filtered = <<>>

C16_Witness ==
  /\ AfterFilter
  /\ opts.grep = <<"(", ".">> /\ opts.grepContext = 1
  /\ files[1].hunks[1].lines = <<HeaderB, <<"-", "(", "a">>, <<" ", "(", ".">>>>
  /\ Len(filtered) = 1
  /\ filtered[1].hunks[1].lines = files[1].hunks[1].lines

\* the pretty lines of the hunks of a file, a blank line between two hunks
RECURSIVE C17_Hunks(_)
C17_Hunks(hs) ==
  IF hs = <<>> THEN <<>>
  ELSE IF Len(hs) = 1 THEN PrettyLines(hs[1])
  ELSE PrettyLines(hs[1]) \o << <<>> >> \o C17_Hunks(Tail(hs))

RECURSIVE C17_Layout(_)
C17_Layout(fs) ==
  IF fs = <<>> THEN <<>>
  ELSE <<<<" ", " ">> \o Head(fs).path>> \o C17_Hunks(Head(fs).hunks) \o C17_Layout(Tail(fs))

\* C17: when every hunk is rendered, diffText holds for each file its path
\* line once, before the lines of its first hunk, and a blank line between
\* two consecutive hunks of the file.
C17_DiffTextLayout ==
  Done /\ Len(filtered) > 0 /\ ~result[1].info.truncated =>
    result[1].diffText = C17_Layout(filtered)

-----------------------------------------------------------------------------
(* The commands *)

\* the write and edit calls of the branch, in order
RECURSIVE C19_Calls(_)
C19_Calls(entries) ==
  IF entries = <<>> THEN <<>>
  ELSE (IF Head(entries).type = "message" /\ Head(entries).role = "assistant"
        THEN SelectSeq(Head(entries).content,
                       LAMBDA b : b.type = "toolCall" /\ b.name \in {"write", "edit"})
        ELSE <<>>) \o C19_Calls(Tail(entries))

\* the path a tool result is about: that of the last call with its id
C19_PathOf(id) ==
  LET calls == C19_Calls(branch)
      S == {k \in 1..Len(calls) : calls[k].id = id}
  IN  IF S = {} THEN <<>> ELSE toCanonicalPath(calls[MaxIn(S)].path)

\* the tool results that resolve to the canonical path p
C19_Results(p) ==
  {i \in 1..Len(branch) :
     /\ branch[i].type = "message"
     /\ branch[i].role = "toolResult"
     /\ C19_PathOf(branch[i].toolCallId) = <<p>>}

C19_Existing == {<<"/", "w", "/", "p">>, <<"/", "w", "/", "q">>}

\* the paths of the entries of git status that are not renames or copies
C19_StatusPaths ==
  IF statusOut = <<>> THEN {}
  ELSE {toCanonicalPath(SubSeq(statusOut[1][k], 4, Len(statusOut[1][k]))) :
          k \in {j \in 1..Len(statusOut[1]) :
                   Len(statusOut[1][j]) >= 4 /\ statusOut[1][j][1] \notin {"R", "C"}}}

C19_WitnessCoalesced ==
  /\ dpc = "shown"
  /\ branch = <<Assistant(<<ToolCall(1, "write", <<"p">>), ToolCall(2, "edit", <<"l">>)>>),
                ToolResult(2, 2), ToolResult(1, 1)>>
  /\ statusOut = <<>>
  /\ Len(changedFiles[1]) = 1
  /\ changedFiles[1][1].operations = {"write", "edit"}
  /\ changedFiles[1][1].lastTimestamp = 2

\* C20: pi.sendMessage is called at most once in a run of /revy, and only
\* when the isolated review returned without abort or error a non-empty
\* text and the user chose "Bring into conversation".
C20_ExplicitConfirmation ==
  /\ Len(sent) <= 1
  /\ sent # <<>> =>
       /\ reviewEnd = "returned"
       /\ world.response # <<>>
       /\ world.response[1].stopReason \notin {"aborted", "error"}
       /\ reviewResult[1].text # ""
       /\ ~reviewResult[1].aborted
       /\ action = <<"inject">>

-----------------------------------------------------------------------------
(* Order of the filters, accounting of render, the truncated flag *)

\* C23: with lineRange and grep together the result is grep (matching and
\* context expansion) applied to what the range slice retains, header
\* included: a hunk whose matches all lie outside the range is dropped and
\* no line outside [start, end] comes back with the context.
C23_RangeBeforeGrep ==
  AfterFilter /\ opts.lineRange # <<>> /\ opts.grep # <<>> /\ opts.paths = <<>> =>
    AllHunks(filtered) =
      C8_ExpectedAll(C5_ExpectedAll(AllHunks(files), opts.lineRange[1]),
                     opts.grep, opts.grepContext)

\* new lines 1..3 are " y", "+x", " y"; range [2, 3], grep "x" with context
\* 1: line 1 is next to the match in the hunk and stays out
C23_Witness ==
  /\ AfterFilter
  /\ opts.lineRange = <<[start |-> 2, end |-> 3]>>
  /\ opts.grep = <<"x">> /\ opts.grepContext = 1
  /\ files[1].hunks[1].lines = <<HeaderA, <<" ", "y">>, <<"+", "x">>, <<" ", "y">>>>
  /\ Len(filtered) = 1
  /\ filtered[1].hunks[1].lines = <<HeaderA, <<"+", "x">>, <<" ", "y">>>>

\* the only line with "x" has new-side number 2, the range is [1, 1]: the
\* hunk is dropped
C23_WitnessDropped ==
  /\ AfterFilter
  /\ opts.lineRange = <<[start |-> 1, end |-> 1]>>
  /\ opts.grep = <<"x">>
  /\ files[1].hunks[1].lines = <<HeaderA, <<" ", "y">>, <<"+", "x">>>>
  /\ filtered = <<>>

\* "== <path> (hunk +<n>)": the first line of the block of a hunk
C24_IsHunkTitle(line) ==
  /\ StartsWith(line, <<"=", "=", " ">>)
  /\ C8_Includes(line, <<" ", "(", "h", "u", "n", "k", " ", "+">>)
  /\ line[Len(line)] = ")"

C24_HunkBlocks(bs) == Cardinality({k \in 1..Len(bs) : C24_IsHunkTitle(bs[k][1])})

C24_HunkTitles(lines) == Cardinality({k \in 1..Len(lines) : C24_IsHunkTitle(lines[k])})

\* a step that renders the header-only file at fi
C24_HeaderOnlyStep ==
  /\ pc = "file" /\ fi <= Len(filtered)
  /\ Len(filtered[fi].hunks) = 0
  /\ blocks' # blocks

\* C24: at every point of render shownHunks is the number of hunk blocks
\* emitted so far, a cut hunk counting as one, and is at most maxHunks; the
\* returned info holds the number of hunk blocks of text; a step that
\* renders a header-only file adds one to shownFiles and leaves shownHunks.
C24_HunkAccounting ==
  /\ [](/\ shownHunks = C24_HunkBlocks(blocks)
        /\ shownHunks <= ropts.maxHunks
        /\ Done /\ Len(filtered) > 0 =>
             /\ result[1].info.shownHunks = C24_HunkTitles(result[1].text)
             /\ result[1].info.shownHunks <= ropts.maxHunks)
  /\ [][C24_HeaderOnlyStep => shownFiles' = shownFiles + 1 /\ shownHunks' = shownHunks]_vars

\* a header-only file, then a file whose hunk is cut by the line budget:
\* the cut hunk counts as one hunk, the header-only file as a file only
C24_Witness ==
  /\ Done
  /\ Len(filtered) = 2
  /\ Len(filtered[1].hunks) = 0
  /\ Len(filtered[2].hunks) = 1
  /\ result[1].info.shownHunks = 1
  /\ result[1].info.shownFiles = 2
  /\ \E k \in 1..Len(result[1].text) : result[1].text[k] = TruncatedLine

\* the blocks of a text: its lines split at the empty lines
RECURSIVE C25_Split(_, _)
C25_Split(lines, cur) ==
  IF lines = <<>> THEN <<cur>>
  ELSE IF Head(lines) = <<>> THEN <<cur>> \o C25_Split(Tail(lines), <<>>)
  ELSE C25_Split(Tail(lines), Append(cur, Head(lines)))

C25_Link(url, path, line, side) ==
  IF url = <<>> THEN <<>>
  ELSE << <<GitHubLabel \o url \o <<"/", "c", "h", "a", "n", "g", "e", "s", "#", "d", "i", "f", "f", "-">>
            \o diffAnchor(path)
            \o (IF line > 0 THEN <<side>> \o ToStr(line) ELSE <<>>)>> >>

\* the blocks of the hunks hs of file f, each in full
RECURSIVE C25_HunkBlocks(_, _, _)
C25_HunkBlocks(f, hs, url) ==
  IF hs = <<>> THEN <<>>
  ELSE LET h == Head(hs)
           t == hunkLinkTarget(h)
       IN  << <<<<"=", "=", " ">> \o f.path \o <<" ", "(", "h", "u", "n", "k", " ", "+">>
                 \o ToStr(h.newStart) \o <<")">>>> \o f.headerLines \o h.lines >>
             \o C25_Link(url, f.path, t.line, t.side)
             \o C25_HunkBlocks(f, Tail(hs), url)

\* the blocks of a text from which nothing is missing
RECURSIVE C25_Full(_, _)
C25_Full(fs, url) ==
  IF fs = <<>> THEN <<>>
  ELSE LET f == Head(fs)
       IN  (IF f.hunks = <<>>
            THEN << <<<<"=", "=", " ">> \o f.path>> \o f.headerLines >>
                   \o C25_Link(url, f.path, 0, "R")
            ELSE C25_HunkBlocks(f, f.hunks, url))
             \o C25_Full(Tail(fs), url)

C25_IsNote(block) == block # <<>> /\ block[1] = NoteRule

\* C25: info.truncated is true exactly when a block of the full rendering
\* is absent from text or cut; when it is false the blocks of text are the
\* full blocks of every header-only file and every hunk, in input order,
\* and nothing else.
C25_TruncatedExact ==
  Done /\ Len(filtered) > 0 =>
    LET tb == C25_Split(result[1].text, <<>>)
        IsContent(b) == ~C25_IsNote(b)
        content == SelectSeq(tb, IsContent)
        full == C25_Full(filtered, ropts.prUrl)
    IN  /\ result[1].info.truncated <=>
             \E k \in 1..Len(full) : k > Len(content) \/ content[k] # full[k]
        /\ ~result[1].info.truncated => tb = full

\* the last hunk fills the line budget exactly: the budget is reached, yet
\* nothing is cut or skipped and truncated is false
C25_Witness ==
  /\ Done
  /\ Len(filtered) = 1
  /\ Len(filtered[1].hunks) = 1
  /\ result[1].info.shownLines = ropts.maxLines
  /\ result[1].info.shownHunks = 1
  /\ ~result[1].info.truncated

\* the second file is skipped whole
C25_WitnessSkipped ==
  /\ Done
  /\ Len(filtered) = 2
  /\ result[1].info.truncated
  /\ result[1].info.shownFiles = 1
  /\ ~\E k \in 1..Len(result[1].text) : result[1].text[k] = TruncatedLine

\* a numbered line of diffText: "+", "-" or " ", then the line number
C26_IsNumbered(d) == Len(d) >= 2 /\ d[1] \in {"+", "-", " "} /\ IsDigit(d[2])

RECURSIVE C26_DropDigits(_)
C26_DropDigits(s) ==
  IF s # <<>> /\ IsDigit(Head(s)) THEN C26_DropDigits(Tail(s)) ELSE s

\* the diff line a numbered line stands for: the number and the space
\* after it taken out
C26_Source(d) == <<d[1]>> \o Tail(C26_DropDigits(Tail(d)))

C26_Count(lines, l) == Cardinality({k \in 1..Len(lines) : lines[k] = l})

C26_CountNumbered(lines, l) ==
  Cardinality({k \in 1..Len(lines) : C26_IsNumbered(lines[k]) /\ C26_Source(lines[k]) = l})

\* C26: diffText holds numbered lines only for hunk lines that text holds
\* too: no more numbered lines for a diff line than text has of it.
C26_DiffTextParallel ==
  Done /\ Len(filtered) > 0 =>
    \A k \in 1..Len(result[1].diffText) :
      LET d == result[1].diffText[k]
      IN  C26_IsNumbered(d) =>
            C26_CountNumbered(result[1].diffText, C26_Source(d))
              <= C26_Count(result[1].text, C26_Source(d))

-----------------------------------------------------------------------------
(* The assisted review: the module state of lines 23-26 and 58-59, the     *)
(* entries it appends to the session, reconstructState, the tool           *)
(* assisted_review_comment and the three commands.  The session is the     *)
(* tree the host keeps: entry k has id k and a parent, getBranch() is the  *)
(* path from the root to the leaf, appendEntry adds a child of the leaf.   *)
(* An entry is [parent, type, data]: a "user" message, the "toolResult" of *)
(* assisted_review_comment (data: details), a custom entry "mode"          *)
(* (assisted-review-mode) or "store" (assisted-review-comments).           *)

Memory ==
  [comments |-> comments, nextCommentId |-> nextCommentId, reviewActive |-> reviewActive,
   reviewOriginId |-> reviewOriginId, previousActiveTools |-> previousActiveTools,
   activePrRef |-> activePrRef]

\* ctx.sessionManager.getBranch()
RECURSIVE getBranch(_, _)
getBranch(es, id) == IF id = 0 THEN <<>> ELSE Append(getBranch(es, es[id].parent), es[id])

\* pi.appendEntry and the host appending a message: a child of the leaf
appendEntry(es, lf, type, data) == Append(es, [parent |-> lf, type |-> type, data |-> data])

\* the data persistReviewMode appends
ReviewModeState(st) ==
  [active |-> st.reviewActive, originId |-> st.reviewOriginId,
   previousTools |-> st.previousActiveTools, prRef |-> st.activePrRef]

\* the data persistCommentsState appends, and the details of a tool result
CommentsState(cs, nextId, error) == [comments |-> cs, nextId |-> nextId, error |-> error]

\* lines 878-883
ResetState ==
  [comments |-> <<>>, nextCommentId |-> 1, reviewActive |-> FALSE, reviewOriginId |-> <<>>,
   previousActiveTools |-> <<>>, activePrRef |-> <<>>]

\* one iteration of `for (const entry of ctx.sessionManager.getBranch())`
RestoreEntry(st, entry) ==
  IF entry.type \in {"toolResult", "store"}
  THEN [st EXCEPT !.comments = entry.data.comments, !.nextCommentId = entry.data.nextId]
  ELSE IF entry.type = "mode"
  THEN [st EXCEPT !.reviewActive = entry.data.active,
                  !.reviewOriginId = entry.data.originId,
                  !.previousActiveTools = entry.data.previousTools,
                  !.activePrRef = entry.data.prRef]
  ELSE st

RECURSIVE RestoreLoop(_, _)
RestoreLoop(st, es) ==
  IF es = <<>> THEN st ELSE RestoreLoop(RestoreEntry(st, Head(es)), Tail(es))

\* the module state reconstructState leaves
reconstructState(es, lf) == RestoreLoop(ResetState, getBranch(es, lf))

CommentTools == {"assisted_review_comment", "assisted_review_diff"}

\* lines 919-940, ctx.hasUI being true: the tools the host has active after it
RestoredTools(st, tools) ==
  IF st.reviewActive /\ st.previousActiveTools # <<>>
  THEN st.previousActiveTools[1] \cup CommentTools
  ELSE tools

RestoredWidget(st, w) == IF st.reviewActive THEN TRUE ELSE w

\* the assignment of a module state to the variables
SetMemory(st) ==
  /\ comments' = st.comments
  /\ nextCommentId' = st.nextCommentId
  /\ reviewActive' = st.reviewActive
  /\ reviewOriginId' = st.reviewOriginId
  /\ previousActiveTools' = st.previousActiveTools
  /\ activePrRef' = st.activePrRef

\* s.trim()
RECURSIVE Trim(_)
Trim(s) ==
  IF s = <<>> THEN s
  ELSE IF Head(s) = " " THEN Trim(Tail(s))
  ELSE IF s[Len(s)] = " " THEN Trim(SubSeq(s, 1, Len(s) - 1))
  ELSE s

\* !value for an optional string: undefined or ""
Falsy(opt) == opt = <<>> \/ opt[1] = <<>>

\* comments.findIndex((comment) => comment.id === id), 0 for -1
findIndex(cs, id) ==
  LET found == {k \in 1..Len(cs) : cs[k].id = id}
  IN  IF found = {} THEN 0 ELSE Min(found)

\* cs.splice(index, 1)
Splice(cs, index) == SubSeq(cs, 1, index - 1) \o SubSeq(cs, index + 1, Len(cs))

Outcome(cs, nextId, error, persisted) ==
  [comments |-> cs, nextId |-> nextId, error |-> error, persisted |-> persisted]

\* mutant of ExecuteAdd: a line is accepted without a path
ExecuteAdd_LineWithoutPath(cs, nextId, params) ==
  IF Falsy(params.title) \/ Falsy(params.body) \/ Falsy(params.priority)
  THEN Outcome(cs, nextId, <<"missing required fields">>, FALSE)
  ELSE Outcome(Append(cs, [id |-> nextId, title |-> params.title[1], body |-> params.body[1],
                           priority |-> params.priority[1], path |-> params.path,
                           line |-> params.line, side |-> params.side]),
               nextId + 1, <<>>, TRUE)

\* case "add"
ExecuteAdd(cs, nextId, params) ==
  IF Falsy(params.title) \/ Falsy(params.body) \/ Falsy(params.priority)
  THEN Outcome(cs, nextId, <<"missing required fields">>, FALSE)
  ELSE IF params.line # <<>> /\ Falsy(params.path)
  THEN Outcome(cs, nextId, <<"path required for line">>, FALSE)
  ELSE Outcome(Append(cs, [id |-> nextId, title |-> params.title[1], body |-> params.body[1],
                           priority |-> params.priority[1], path |-> params.path,
                           line |-> params.line, side |-> params.side]),
               nextId + 1, <<>>, TRUE)

\* `next` of case "update", lines 1049-1086
UpdatedComment(current, params) ==
  LET a == IF params.title # <<>> THEN [current EXCEPT !.title = params.title[1]] ELSE current
      b == IF params.body # <<>> THEN [a EXCEPT !.body = params.body[1]] ELSE a
      c == IF params.priority # <<>> THEN [b EXCEPT !.priority = params.priority[1]] ELSE b
      d == IF params.path = <<>> THEN c
           ELSE IF Trim(params.path[1]) = <<>>
           THEN [c EXCEPT !.path = <<>>, !.line = <<>>, !.side = <<>>]
           ELSE [c EXCEPT !.path = params.path]
      e == IF params.line = <<>> THEN d
           ELSE IF params.line[1] <= 0
           THEN [d EXCEPT !.line = <<>>, !.side = IF Falsy(d.path) THEN <<>> ELSE @]
           ELSE [d EXCEPT !.line = params.line]
  IN  IF params.side # <<>> THEN [e EXCEPT !.side = params.side] ELSE e

\* `changed` of case "update"
Changed(params) ==
  \/ params.title # <<>> \/ params.body # <<>> \/ params.priority # <<>>
  \/ params.path # <<>> \/ params.line # <<>> \/ params.side # <<>>

\* case "update"
ExecuteUpdate(cs, nextId, params) ==
  IF params.id = <<>> THEN Outcome(cs, nextId, <<"id required">>, FALSE)
  ELSE LET index == findIndex(cs, params.id[1])
       IN  IF index = 0 THEN Outcome(cs, nextId, <<"comment not found">>, FALSE)
           ELSE LET next == UpdatedComment(cs[index], params)
                IN  IF ~Changed(params) THEN Outcome(cs, nextId, <<"no changes">>, FALSE)
                    ELSE IF next.line # <<>> /\ Falsy(next.path)
                    THEN Outcome(cs, nextId, <<"path required for line">>, FALSE)
                    ELSE Outcome([cs EXCEPT ![index] = next], nextId, <<>>, TRUE)

\* case "delete"
ExecuteDelete(cs, nextId, params) ==
  IF params.id = <<>> THEN Outcome(cs, nextId, <<"id required">>, FALSE)
  ELSE LET index == findIndex(cs, params.id[1])
       IN  IF index = 0 THEN Outcome(cs, nextId, <<"comment not found">>, FALSE)
           ELSE Outcome(Splice(cs, index), nextId, <<>>, TRUE)

\* assisted_review_comment.execute: what it leaves and returns
execute(cs, nextId, params) ==
  CASE params.action = "list" -> Outcome(cs, nextId, <<>>, FALSE)
    [] params.action = "add" -> ExecuteAdd(cs, nextId, params)
    [] params.action = "update" -> ExecuteUpdate(cs, nextId, params)
    [] params.action = "delete" -> ExecuteDelete(cs, nextId, params)
    [] params.action = "clear" -> Outcome(<<>>, 1, <<>>, TRUE)

\* the entries a call leaves in the session: the custom entry of
\* persistCommentsState, then the tool result with its details
ToolEntries(es, lf, out) ==
  LET persisted == IF out.persisted
                   THEN appendEntry(es, lf, "store", CommentsState(out.comments, out.nextId, <<>>))
                   ELSE es
  IN  appendEntry(persisted, IF out.persisted THEN Len(persisted) ELSE lf, "toolResult",
                  CommentsState(out.comments, out.nextId, out.error))

\* activateCommentTool: what it leaves of previousActiveTools, the active
\* tools of the host and the widget
activateCommentTool(previous, tools, w) ==
  IF previous # <<>> THEN [previousActiveTools |-> previous, activeTools |-> tools, widget |-> w]
  ELSE [previousActiveTools |-> <<tools>>, activeTools |-> tools \cup CommentTools,
        widget |-> TRUE]

\* deactivateCommentTool
deactivateCommentTool(previous, tools, w) ==
  IF previous = <<>> THEN [previousActiveTools |-> previous, activeTools |-> tools, widget |-> w]
  ELSE [previousActiveTools |-> <<>>, activeTools |-> previous[1], widget |-> FALSE]

\* entries.filter((e) => e.type === "message").length over getEntries()
messageCount(es) == Cardinality({k \in 1..Len(es) : es[k].type \in {"user", "toolResult"}})

\* entries.find((e) => e.type === "message" && e.message.role === "user"), 0 for none
firstUserMessage(es) ==
  LET users == {k \in 1..Len(es) : es[k].type = "user"}
  IN  IF users = {} THEN 0 ELSE Min(users)

\* the leaf after a navigation of the host to entry id: a user message is
\* put back into the editor and its parent becomes the leaf
NavigatedLeaf(es, id) == IF es[id].type = "user" THEN es[id].parent ELSE id

\* what a completed ctx.navigateTree leaves: the session_tree handler has
\* run before it returns ("handled") or is still to run ("queued")
AfterNavigation(es, newLeaf, outcome) ==
  LET st == IF outcome = "handled" THEN reconstructState(es, newLeaf) ELSE Memory
  IN  [memory |-> st,
       activeTools |-> IF outcome = "handled" THEN RestoredTools(st, activeTools)
                       ELSE activeTools,
       widget |-> IF outcome = "handled" THEN RestoredWidget(st, widget) ELSE widget]

NavigationOutcomes == {"cancelled", "failed", "handled", "queued"}

\* an invocation of /assisted-review: where its handler is, the entry its
\* navigateTree was given, and the leaf id and PR ref it recorded at 1602-1605
IdleStart == [pc |-> "idle", target |-> 0, origin |-> <<>>, pr |-> <<>>]

otherVars == <<engineVars, diffCommandVars, revyCommandVars>>

MaxSession == 5

MaxId == 2

\* assisted_review_comment.execute with params out of P, and the host
\* appending the result
CommentToolCall(P) ==
  \E params \in P :
    LET out == execute(comments, nextCommentId, params)
    IN  /\ Len(session) + (IF out.persisted THEN 2 ELSE 1) <= MaxSession
        /\ out.nextId <= MaxId + 1
        /\ comments' = out.comments
        /\ nextCommentId' = out.nextId
        /\ session' = ToolEntries(session, leaf, out)
        /\ leaf' = Len(session')
        /\ UNCHANGED <<otherVars, reviewOriginId, reviewActive, previousActiveTools,
                       activePrRef, activeTools, widget, treePending, starts, ending, ui,
                       toolsAtStart>>
        /\ notice' = <<>>

\* handler of /assisted-review up to its first await (ctx.hasUI is true)
ReviewInvoke(i) ==
  /\ starts[i].pc = "idle"
  /\ IF reviewActive
     THEN /\ notice' = <<"Already in an assisted review">>
          /\ UNCHANGED starts
     ELSE /\ starts' = [starts EXCEPT ![i].pc = "choosing"]
          /\ notice' = <<>>
  /\ UNCHANGED <<otherVars, moduleVars, hostVars, ending, ui, toolsAtStart>>

\* the rest of the handler and executeReview up to its await: target is
\* <<>> when none was given or chosen, choice <<>> when the select is left
ReviewChoose(i) ==
  /\ starts[i].pc = "choosing"
  /\ \E target \in {<<>>, <<[type |-> "pr", ref |-> <<"7">>]>>, <<[type |-> "uncommitted"]>>},
        choice \in {<<>>, <<"Empty branch">>, <<"Current session">>} :
       LET useFreshSession == messageCount(session) > 0 /\ choice = <<"Empty branch">>
           first == firstUserMessage(session)
           pr == IF target # <<>> /\ target[1].type = "pr" THEN <<target[1].ref>> ELSE <<>>
           tool == activateCommentTool(previousActiveTools, activeTools, widget)
           started == [Memory EXCEPT !.reviewActive = TRUE, !.activePrRef = pr,
                                     !.previousActiveTools = tool.previousActiveTools]
       IN  IF target = <<>> \/ (messageCount(session) > 0 /\ choice = <<>>)
           THEN /\ notice' = <<"Assisted review cancelled">>
                /\ starts' = [starts EXCEPT ![i] = IdleStart]
                /\ UNCHANGED <<moduleVars, hostVars, toolsAtStart>>
           ELSE IF reviewActive
           THEN /\ notice' = <<"Already in an assisted review">>
                /\ starts' = [starts EXCEPT ![i] = IdleStart]
                /\ UNCHANGED <<moduleVars, hostVars, toolsAtStart>>
           ELSE IF useFreshSession /\ first = 0
           THEN /\ notice' = <<"No user message found in session">>
                /\ starts' = [starts EXCEPT ![i] = IdleStart]
                /\ reviewActive' = FALSE
                /\ reviewOriginId' = <<>>
                /\ activePrRef' = <<>>
                /\ UNCHANGED <<previousActiveTools, comments, nextCommentId, hostVars,
                               toolsAtStart>>
           ELSE IF useFreshSession
           THEN /\ reviewActive' = TRUE
                /\ activePrRef' = pr
                /\ reviewOriginId' = IF leaf = 0 THEN <<>> ELSE <<leaf>>
                /\ starts' = [starts EXCEPT ![i] = [pc |-> "navigating", target |-> first,
                                                    origin |-> IF leaf = 0 THEN <<>> ELSE <<leaf>>,
                                                    pr |-> pr]]
                /\ toolsAtStart' = <<activeTools>>
                /\ UNCHANGED <<previousActiveTools, comments, nextCommentId, hostVars>>
                /\ notice' = <<>>
           ELSE /\ Len(session) < MaxSession
                /\ SetMemory(started)
                /\ activeTools' = tool.activeTools
                /\ widget' = tool.widget
                /\ session' = appendEntry(session, leaf, "mode", ReviewModeState(started))
                /\ leaf' = Len(session')
                /\ starts' = [starts EXCEPT ![i].pc = "prompting"]
                /\ toolsAtStart' = <<activeTools>>
                /\ UNCHANGED <<treePending>>
                /\ notice' = <<>>
  /\ UNCHANGED <<otherVars, ending, ui>>

\* executeReview from the return of navigateTree to its second await
ReviewNavigated(i) ==
  /\ starts[i].pc = "navigating"
  /\ \E outcome \in NavigationOutcomes :
       IF outcome \in {"cancelled", "failed"}
       THEN /\ reviewActive' = FALSE
            /\ reviewOriginId' = <<>>
            /\ activePrRef' = <<>>
            /\ notice' = IF outcome = "failed" THEN <<"Failed to start assisted review">>
                         ELSE <<>>
            /\ starts' = [starts EXCEPT ![i] = IdleStart]
            /\ UNCHANGED <<previousActiveTools, comments, nextCommentId, hostVars>>
       ELSE LET newLeaf == NavigatedLeaf(session, starts[i].target)
                nav == AfterNavigation(session, newLeaf, outcome)
                tool == activateCommentTool(nav.memory.previousActiveTools, nav.activeTools,
                                            nav.widget)
                st == [nav.memory EXCEPT !.previousActiveTools = tool.previousActiveTools]
            IN  /\ Len(session) < MaxSession
                /\ SetMemory(st)
                /\ activeTools' = tool.activeTools
                /\ widget' = tool.widget
                /\ session' = appendEntry(session, newLeaf, "mode", ReviewModeState(st))
                /\ leaf' = Len(session')
                /\ treePending' = (treePending \/ outcome = "queued")
                /\ starts' = [starts EXCEPT ![i].pc = "prompting"]
                /\ notice' = <<>>
  /\ UNCHANGED <<otherVars, ending, ui, toolsAtStart>>

\* the end of executeReview: the notification and pi.sendUserMessage(prompt)
ReviewPrompt(i) ==
  /\ starts[i].pc = "prompting"
  /\ Len(session) < MaxSession
  /\ notice' = <<"Starting assisted review">>
  /\ session' = appendEntry(session, leaf, "user", <<>>)
  /\ leaf' = Len(session')
  /\ starts' = [starts EXCEPT ![i] = IdleStart]
  /\ UNCHANGED <<otherVars, moduleVars, activeTools, widget, treePending, ending, ui,
                 toolsAtStart>>

\* the handler of session_tree for a navigation that returned before it ran
SessionTree ==
  /\ treePending
  /\ LET st == reconstructState(session, leaf)
     IN  /\ SetMemory(st)
         /\ activeTools' = RestoredTools(st, activeTools)
         /\ widget' = RestoredWidget(st, widget)
  /\ treePending' = FALSE
  /\ UNCHANGED <<otherVars, session, leaf, starts, ending, ui, toolsAtStart>>
  /\ notice' = <<>>

DefaultTools == {"read"}

\* the session is loaded again: no command is running, nothing has been
\* notified, the tools are the host's, and the handler of session_start runs
SessionStart ==
  /\ LET st == reconstructState(session, leaf)
     IN  /\ SetMemory(st)
         /\ activeTools' = RestoredTools(st, DefaultTools)
         /\ widget' = RestoredWidget(st, FALSE)
  /\ treePending' = FALSE
  /\ starts' = [i \in DOMAIN starts |-> IdleStart]
  /\ ending' = [pc |-> "idle", target |-> 0]
  /\ ui' = <<>>
  /\ notice' = <<>>
  /\ UNCHANGED <<otherVars, session, leaf, toolsAtStart>>

IdleEnd == [pc |-> "idle", target |-> 0]

\* lines 2102-2107: what the end of the handler leaves, from the module
\* state st and the host's tools and widget
EndReview(st, tools, w, lf) ==
  LET tool == deactivateCommentTool(st.previousActiveTools, tools, w)
      ended == [st EXCEPT !.reviewActive = FALSE, !.reviewOriginId = <<>>,
                          !.activePrRef = <<>>,
                          !.previousActiveTools = tool.previousActiveTools]
  IN  /\ Len(session) < MaxSession
      /\ SetMemory(ended)
      /\ activeTools' = tool.activeTools
      /\ widget' = tool.widget
      /\ session' = appendEntry(session, lf, "mode", ReviewModeState(ended))
      /\ leaf' = Len(session')
      /\ notice' = <<"Assisted review complete">>
      /\ ending' = IdleEnd

\* handler of /end-assisted-review up to the await of shareComments
EndInvoke ==
  /\ ending.pc = "idle"
  /\ IF ~reviewActive
     THEN /\ notice' = <<"Not in an assisted review">>
          /\ UNCHANGED ending
     ELSE /\ ending' = [ending EXCEPT !.pc = "sharing"]
          /\ notice' = <<>>
  /\ UNCHANGED <<otherVars, moduleVars, hostVars, starts, ui, toolsAtStart>>

\* shareComments has returned: the navigation back is started, or the
\* review ends where it is
EndShared ==
  /\ ending.pc = "sharing"
  /\ IF reviewOriginId # <<>>
     THEN /\ ending' = [pc |-> "returning", target |-> reviewOriginId[1]]
          /\ UNCHANGED <<moduleVars, hostVars>>
          /\ notice' = <<>>
     ELSE /\ EndReview(Memory, activeTools, widget, leaf)
          /\ UNCHANGED treePending
  /\ UNCHANGED <<otherVars, starts, ui, toolsAtStart>>

\* the handler from the return of navigateTree(reviewOriginId)
EndNavigated ==
  /\ ending.pc = "returning"
  /\ \E outcome \in NavigationOutcomes :
       IF outcome \in {"cancelled", "failed"}
       THEN /\ notice' = IF outcome = "failed" THEN <<"Failed to return">>
                         ELSE <<"Navigation cancelled">>
            /\ ending' = IdleEnd
            /\ UNCHANGED <<moduleVars, hostVars>>
       ELSE LET newLeaf == NavigatedLeaf(session, ending.target)
                nav == AfterNavigation(session, newLeaf, outcome)
            IN  /\ EndReview(nav.memory, nav.activeTools, nav.widget, newLeaf)
                /\ treePending' = (treePending \/ outcome = "queued")
  /\ UNCHANGED <<otherVars, starts, ui, toolsAtStart>>

\* Number(lineTrimmed) when it is finite and positive, else 0
ParsedLine(s) ==
  IF s # <<>> /\ \A k \in 1..Len(s) : IsDigit(s[k]) THEN Number(s) ELSE 0

\* editComment: the comment it writes, <<>> when an input makes it return
\* false; `input` holds what the user enters (title, path, line as texts)
EditedComment(comment, input) ==
  LET title == IF Trim(input.title) # <<>> THEN Trim(input.title) ELSE comment.title
      pathTrimmed == Trim(input.path)
      cleared == pathTrimmed = <<"-">>
      path == IF pathTrimmed = <<>> THEN comment.path
              ELSE IF cleared THEN <<>> ELSE <<pathTrimmed>>
      line0 == IF cleared THEN <<>> ELSE comment.line
      side0 == IF cleared THEN <<>> ELSE comment.side
      lineTrimmed == Trim(input.line)
      asksLine == ~Falsy(path) /\ lineTrimmed # <<>>
      line == IF ~asksLine THEN line0
              ELSE IF lineTrimmed = <<"-">> THEN <<>> ELSE <<ParsedLine(lineTrimmed)>>
      side == IF asksLine /\ lineTrimmed = <<"-">> THEN <<>> ELSE side0
  IN  IF asksLine /\ lineTrimmed # <<"-">> /\ ParsedLine(lineTrimmed) <= 0 THEN <<>>
      ELSE <<[comment EXCEPT !.title = title, !.path = path, !.line = line, !.side = side]>>

\* reviewComments: a comment of the list is selected
UiSelect ==
  /\ ui = <<>>
  /\ \E k \in 1..Len(comments) : ui' = <<comments[k]>>
  /\ UNCHANGED <<otherVars, moduleVars, hostVars, starts, ending, toolsAtStart>>
  /\ notice' = <<>>

\* "Back"
UiBack ==
  /\ ui # <<>>
  /\ ui' = <<>>
  /\ UNCHANGED <<otherVars, moduleVars, hostVars, starts, ending, toolsAtStart>>
  /\ notice' = <<>>

\* "Edit": editComment(selectedComment) from its last input on
UiEdit(I) ==
  /\ ui # <<>>
  /\ \E input \in I :
       LET edited == EditedComment(ui[1], input)
           index == findIndex(comments, ui[1].id)
       IN  IF edited = <<>>
           THEN /\ notice' = <<"Invalid line number">>
                /\ UNCHANGED <<comments, session, leaf, ui>>
           ELSE IF index = 0
           THEN /\ notice' = <<"Comment not found">>
                /\ UNCHANGED <<comments, session, leaf, ui>>
           ELSE /\ Len(session) < MaxSession
                /\ comments' = [comments EXCEPT ![index] = edited[1]]
                /\ session' = appendEntry(session, leaf, "store",
                                          CommentsState(comments', nextCommentId, <<>>))
                /\ leaf' = Len(session')
                /\ notice' = <<"Updated comment">>
                /\ ui' = <<comments'[index]>>
  /\ UNCHANGED <<otherVars, reviewOriginId, reviewActive, previousActiveTools, activePrRef,
                 nextCommentId, activeTools, widget, treePending, starts, ending, toolsAtStart>>

\* "Delete", confirmed
UiDelete ==
  /\ ui # <<>>
  /\ LET index == findIndex(comments, ui[1].id)
     IN  IF index = 0
         THEN /\ notice' = <<"Comment not found">>
              /\ UNCHANGED <<comments, session, leaf>>
         ELSE /\ Len(session) < MaxSession
              /\ comments' = Splice(comments, index)
              /\ session' = appendEntry(session, leaf, "store",
                                        CommentsState(comments', nextCommentId, <<>>))
              /\ leaf' = Len(session')
              /\ notice' = <<"Deleted comment">>
  /\ ui' = <<>>
  /\ UNCHANGED <<otherVars, reviewOriginId, reviewActive, previousActiveTools, activePrRef,
                 nextCommentId, activeTools, widget, treePending, starts, ending, toolsAtStart>>

-----------------------------------------------------------------------------
(* The comment store under the tool and the comment list of                *)
(* /assisted-review-comments, and the life of a review under the commands  *)
(* /assisted-review and /end-assisted-review.                              *)

\* the parameters of a call, <<>> for a field that is not given
Params(a, i, t, b, p, pa, l, s) ==
  [action |-> a, id |-> i, title |-> t, body |-> b, priority |-> p, path |-> pa, line |-> l,
   side |-> s]

Title == << <<"t">> >>

Body == << <<"b">> >>

Priority == << <<"P", "1">> >>

\* what the model may pass to assisted_review_comment: every action, ids
\* present and absent, fields given, empty and missing
CommentParams ==
  {Params("list", <<>>, <<>>, <<>>, <<>>, <<>>, <<>>, <<>>),
   Params("clear", <<>>, <<>>, <<>>, <<>>, <<>>, <<>>, <<>>),
   Params("add", <<>>, <<>>, Body, Priority, <<>>, <<>>, <<>>),
   Params("add", <<>>, Title, <<>>, Priority, <<>>, <<>>, <<>>),
   Params("add", <<>>, Title, Body, <<>>, <<>>, <<>>, <<>>),
   Params("update", <<>>, Title, <<>>, <<>>, <<>>, <<>>, <<>>)}
  \cup {Params("add", <<>>, Title, Body, Priority, pa, l, <<>>) :
          pa \in {<<>>, << <<>> >>, << <<" ">> >>, << <<"p">> >>}, l \in {<<>>, <<0>>, <<1>>}}
  \cup {Params("update", <<n>>, <<>>, <<>>, <<>>, pa, l, s) :
          n \in 1..MaxId,
          pa \in {<<>>, << <<>> >>, << <<" ">> >>, << <<"p">> >>}, l \in {<<>>, <<0>>, <<1>>},
          s \in {<<>>, <<"LEFT">>}}
  \cup {Params("delete", i, <<>>, <<>>, <<>>, <<>>, <<>>, <<>>) :
          i \in {<<>>} \cup {<<n>> : n \in 1..MaxId}}

\* what the user may enter in editComment: title, path and line
EditInputs ==
  {[title |-> t, path |-> p, line |-> l] :
     t \in {<<>>, <<"u">>},
     p \in {<<>>, <<"-">>, <<"q">>},
     l \in {<<>>, <<"-">>, <<"2">>, <<"x">>}}

\* a session without entries, or with the first message of the user
Sessions == {<<>>, <<[parent |-> 0, type |-> "user", data |-> <<>>]>>}

InitReviewWith(sessions) ==
  /\ reviewOriginId = <<>>
  /\ reviewActive = FALSE
  /\ previousActiveTools = <<>>
  /\ activePrRef = <<>>
  /\ comments = <<>>
  /\ nextCommentId = 1
  /\ session \in sessions
  /\ leaf = Len(session)
  /\ activeTools = DefaultTools
  /\ widget = FALSE
  /\ treePending = FALSE
  /\ starts = [i \in 1..2 |-> IdleStart]
  /\ ending = IdleEnd
  /\ ui = <<>>
  /\ notice = <<>>
  /\ toolsAtStart = <<>>
  /\ EngineIdle
  /\ DiffCommandIdle
  /\ RevyCommandIdle

InitComments == InitReviewWith({<<>>})

NextComments ==
  \/ CommentToolCall(CommentParams)
  \/ UiSelect
  \/ UiBack
  \/ UiEdit(EditInputs)
  \/ UiDelete

SpecComments == InitComments /\ [][NextComments]_vars

\* the calls and the edits made while a review is started and ended
ReviewParams ==
  {Params("add", <<>>, Title, Body, Priority, <<>>, <<>>, <<>>),
   Params("clear", <<>>, <<>>, <<>>, <<>>, <<>>, <<>>, <<>>)}

ReviewInputs == {[title |-> <<"u">>, path |-> <<>>, line |-> <<>>]}

InitReview == InitReviewWith(Sessions)

\* an invocation takes the first record of starts that is idle
FreeStart(i) == starts[i].pc = "idle" /\ \A j \in 1..(i - 1) : starts[j].pc # "idle"

NextReview ==
  \/ \E i \in DOMAIN starts : FreeStart(i) /\ ReviewInvoke(i)
  \/ \E i \in DOMAIN starts : ReviewChoose(i)
  \/ \E i \in DOMAIN starts : ReviewNavigated(i)
  \/ \E i \in DOMAIN starts : ReviewPrompt(i)
  \/ EndInvoke
  \/ EndShared
  \/ EndNavigated
  \/ SessionTree
  \/ SessionStart
  \/ CommentToolCall(ReviewParams)
  \/ UiSelect
  \/ UiBack
  \/ UiEdit(ReviewInputs)
  \/ UiDelete

SpecReview == InitReview /\ [][NextReview]_vars

-----------------------------------------------------------------------------
(* The comment store, reload, and the life of a review *)

\* the step is a call of the tool that returned an error
C29_RejectedCall ==
  /\ Len(session') = Len(session) + 1
  /\ session'[Len(session')].type = "toolResult"
  /\ session'[Len(session')].data.error # <<>>

\* C29: from the empty store, under any interleaving of tool calls and of
\* the edits and deletions of the comment list, the ids of the comments are
\* pairwise distinct and smaller than nextCommentId, a comment with a line
\* has a path that is not empty, and a call that returns an error leaves
\* comments and nextCommentId as they were.
C29_StoreInvariant ==
  /\ [](/\ \A j, k \in 1..Len(comments) : comments[j].id = comments[k].id => j = k
        /\ \A k \in 1..Len(comments) : comments[k].id < nextCommentId
        /\ \A k \in 1..Len(comments) :
             comments[k].line # <<>> => comments[k].path # <<>> /\ comments[k].path[1] # <<>>)
  /\ [][C29_RejectedCall => comments' = comments /\ nextCommentId' = nextCommentId]_vars

\* a comment is selected in the list, the tool then sets its line and path,
\* and the edit of the list, made from the selected copy, is written over it
C29_Witness ==
  /\ Len(comments) = 1
  /\ ui # <<>>
  /\ ui[1] = comments[1]
  /\ comments[1].title = <<"u">>
  /\ comments[1].path = << <<"q">> >>
  /\ comments[1].line = <<2>>
  /\ \E k \in 1..Len(session) :
       /\ session[k].type = "toolResult"
       /\ session[k].data.comments # <<>>
       /\ session[k].data.comments[1].path = << <<"p">> >>

\* a call with a line and no path was rejected after a comment was added
C29_WitnessRejected ==
  /\ Len(comments) = 1
  /\ Len(session) >= 3
  /\ session[Len(session)].type = "toolResult"
  /\ session[Len(session)].data.error = <<"path required for line">>

\* no command is between two of its awaits and no session_tree event of a
\* completed navigation is still to be delivered
C22_Completed ==
  /\ \A i \in DOMAIN starts : starts[i].pc = "idle"
  /\ ending.pc = "idle"
  /\ ~treePending

\* C22: whenever every operation begun has completed (tool calls, edits and
\* deletions in the list, starts and ends of a review, in any order),
\* reconstructState on the branch of the leaf yields the comments,
\* nextCommentId, reviewActive, reviewOriginId, previousActiveTools and
\* activePrRef that are in memory.
C22_ReloadSurvival == C22_Completed => reconstructState(session, leaf) = Memory

\* invocation i of /assisted-review, started in an empty branch, gets its
\* navigation back neither cancelled nor failed, and goes on to the prompt
C27_FreshStart(i) == starts[i].pc = "navigating" /\ starts'[i].pc = "prompting"

\* C27: when a review is started in an empty branch and the navigation is
\* neither cancelled nor failed, then after activateCommentTool and
\* persistReviewMode reviewActive is true, reviewOriginId is the leaf id
\* recorded before the navigation, activePrRef is the PR ref of the target,
\* and the assisted-review-mode entry appended records these values, whether
\* the session_tree handler ran before navigateTree returned or not.
C27_FreshStartKeepsState ==
  [][\A i \in DOMAIN starts :
       C27_FreshStart(i) =>
         /\ reviewActive'
         /\ reviewOriginId' = starts[i].origin
         /\ activePrRef' = starts[i].pr
         /\ session'[Len(session')].type = "mode"
         /\ session'[Len(session')].data.active
         /\ session'[Len(session')].data.originId = starts[i].origin
         /\ session'[Len(session')].data.prRef = starts[i].pr]_vars

\* /end-assisted-review completes: it was waiting for shareComments or for
\* the navigation back, and ends with its last notification
C28_EndCompletes ==
  /\ ending.pc \in {"sharing", "returning"}
  /\ ending'.pc = "idle"
  /\ notice' = <<"Assisted review complete">>

\* C28: whenever /end-assisted-review completes for an active review (the
\* navigation back, if any, neither cancelled nor failed), reviewActive is
\* false, previousActiveTools is null, the widget is removed and the active
\* tools of the host are those that were active when the review started,
\* whether the session_tree handler ran before deactivateCommentTool or not.
C28_EndRestoresTools ==
  [][C28_EndCompletes =>
       /\ ~reviewActive'
       /\ previousActiveTools' = <<>>
       /\ ~widget'
       /\ toolsAtStart # <<>>
       /\ activeTools' = toolsAtStart[1]]_vars

\* invocation i of /assisted-review has passed the check of executeReview
\* and has activated the tools and persisted the review: its prompt is next
C21_Starts(i) == starts[i].pc = "prompting"

\* invocation i, not yet past the check of executeReview, ends in this step
\* with a notification
C21_Refused(i) ==
  /\ starts[i].pc = "choosing"
  /\ starts'[i].pc = "idle"
  /\ notice' # <<>>

\* while reviewActive is true an invocation that has not passed the check of
\* executeReview does not pass it, and when it ends with a notification the
\* session and the state of the review are as they were
C21_RefusedWhileActive ==
  [][reviewActive =>
       \A i \in DOMAIN starts :
         /\ starts[i].pc = "idle" => starts'[i].pc = "idle"
         /\ starts[i].pc = "choosing" => starts'[i].pc \in {"choosing", "idle"}
         /\ C21_Refused(i) =>
              /\ notice' \in {<<"Already in an assisted review">>,
                              <<"Assisted review cancelled">>}
              /\ session' = session
              /\ reviewOriginId' = reviewOriginId
              /\ activePrRef' = activePrRef
              /\ previousActiveTools' = previousActiveTools]_vars

\* C21: while reviewActive is true an invocation of /assisted-review that
\* has not started does not start: it sends no prompt and, when it ends,
\* only notifies and leaves the session, reviewOriginId, activePrRef and
\* previousActiveTools as they were; and of two invocations that overlap at
\* their awaits at most one starts a review.
C21_AtMostOneReview ==
  /\ [](~(C21_Starts(1) /\ C21_Starts(2)))
  /\ C21_RefusedWhileActive

====
